---- MODULE Spec2Model ----
(***************************************************************************)
(* ALMOCO: lunch-attendance intentions per class and weekday.              *)
(*                                                                         *)
(* State: the three SQLite tables (alunos, respostas, quadro_importado),   *)
(* the backup directory (XLSX archives), the calendar day and a file       *)
(* modification clock.  One action per request handler of app.py; for     *)
(* requests served on separate threads, POST /enviar is also given one     *)
(* action per statement, with the position of each thread in threads.      *)
(*                                                                         *)
(* Text is a sequence of characters, each a one-character string.  The     *)
(* characters outside ASCII go by their entity names: "Aacute", "Agrave",  *)
(* "Acirc", "Atilde", "Eacute", "Ecirc", "Iacute", "Oacute", "Ocirc",      *)
(* "Otilde", "Uacute", "Ccedil", the same in lower case ("aacute", ...),   *)
(* and "ndash" for the en dash.                                            *)
(* A calendar date is its day number; day 0 is a Monday, so that           *)
(* date.weekday() is d % 7.  The tables keep the day number where SQLite   *)
(* keeps the ISO text (isoformat is order preserving and injective); the   *)
(* ISO text itself appears where it is parsed: form fields, archive cells. *)
(* The columns atualizado_em / criado_em / id are not modelled.            *)
(***************************************************************************)
EXTENDS Integers, Sequences, FiniteSets, TLC

\* ------------------------------------------------------------------ bounds
MaxWeek == 1        \* reference dates range over weeks 0..MaxWeek
MaxToday == 1       \* the calendar day advances from 0 up to MaxToday
MaxClock == 2       \* number of requests / file writes in one run
MaxExt == 2         \* number of backup files put in the directory by hand


\* ------------------------------------------------------- program constants
TURMAS ==
    <<"TIN I", "TIN II", "TIN III", "TAI I", "TAI II", "TAI III",
      "TST I", "TST II", "TST III", "SERVIDORES">>

\* Mutant: the grid follows the order of TURMAS.
TURMAS_ORDEM_QUADRO_AsTurmas == TURMAS

TURMAS_ORDEM_QUADRO ==
    <<"TAI I", "TAI II", "TAI III", "TIN I", "TIN II", "TIN III",
      "TST I", "TST II", "TST III", "SERVIDORES">>

DIAS_SEMANA == <<"seg", "ter", "qua", "qui", "sex">>

INTENCOES == <<"SIM", "NAO">>

MAX_BACKUPS == 30

HEADER_SCAN_ROWS == 15

Range(s) == {s[i] : i \in 1..Len(s)}

TurmaSet == Range(TURMAS)
DiaSet == Range(DIAS_SEMANA)

\* The text of each canonical code (the Python string itself).
TurmaText(t) ==
    CASE t = "TIN I" -> <<"T","I","N"," ","I">>
      [] t = "TIN II" -> <<"T","I","N"," ","I","I">>
      [] t = "TIN III" -> <<"T","I","N"," ","I","I","I">>
      [] t = "TAI I" -> <<"T","A","I"," ","I">>
      [] t = "TAI II" -> <<"T","A","I"," ","I","I">>
      [] t = "TAI III" -> <<"T","A","I"," ","I","I","I">>
      [] t = "TST I" -> <<"T","S","T"," ","I">>
      [] t = "TST II" -> <<"T","S","T"," ","I","I">>
      [] t = "TST III" -> <<"T","S","T"," ","I","I","I">>
      [] t = "SERVIDORES" -> <<"S","E","R","V","I","D","O","R","E","S">>

TecnicoEm == <<"T","Eacute","C","N","I","C","O"," ","E","M"," ">>
Automacao == <<"A","U","T","O","M","A","Ccedil","Atilde","O"," ","I","N","D","U","S","T","R","I","A","L">>
Informatica == <<"I","N","F","O","R","M","Aacute","T","I","C","A">>
Seguranca == <<"S","E","G","U","R","A","N","Ccedil","A"," ","D","O"," ","T","R","A","B","A","L","H","O">>

TURMAS_LABEL(t) ==
    CASE t = "TAI I" -> TecnicoEm \o Automacao \o <<" ","ndash"," ","1">>
      [] t = "TAI II" -> TecnicoEm \o Automacao \o <<" ","ndash"," ","2">>
      [] t = "TAI III" -> TecnicoEm \o Automacao \o <<" ","ndash"," ","3">>
      [] t = "TIN I" -> TecnicoEm \o Informatica \o <<" ","ndash"," ","1">>
      [] t = "TIN II" -> TecnicoEm \o Informatica \o <<" ","ndash"," ","2">>
      [] t = "TIN III" -> TecnicoEm \o Informatica \o <<" ","ndash"," ","3">>
      [] t = "TST I" -> TecnicoEm \o Seguranca \o <<" ","ndash"," ","1">>
      [] t = "TST II" -> TecnicoEm \o Seguranca \o <<" ","ndash"," ","2">>
      [] t = "TST III" -> TecnicoEm \o Seguranca \o <<" ","ndash"," ","3">>
      [] t = "SERVIDORES" -> <<"S","E","R","V","I","D","O","R","E","S">>

\* Insertion order of the TURMAS_LABEL dict (the order .items() iterates).
TURMAS_LABEL_ORDER ==
    <<"TAI I", "TAI II", "TAI III", "TIN I", "TIN II", "TIN III",
      "TST I", "TST II", "TST III", "SERVIDORES">>

\* The text of each weekday code.
DiaText(d) ==
    CASE d = "seg" -> <<"s","e","g">>
      [] d = "ter" -> <<"t","e","r">>
      [] d = "qua" -> <<"q","u","a">>
      [] d = "qui" -> <<"q","u","i">>
      [] d = "sex" -> <<"s","e","x">>

\* --------------------------------------------------------------- str methods
Whitespace == {" ", "\t"}

Digits == <<"0","1","2","3","4","5","6","7","8","9">>
DigitSet == Range(Digits)

UpperLetters ==
    <<"A","B","C","D","E","F","G","H","I","J","K","L","M","N","O","P","Q","R",
      "S","T","U","V","W","X","Y","Z",
      "Aacute","Agrave","Acirc","Atilde","Eacute","Ecirc","Iacute","Oacute","Ocirc","Otilde","Uacute","Ccedil">>
LowerLetters ==
    <<"a","b","c","d","e","f","g","h","i","j","k","l","m","n","o","p","q","r",
      "s","t","u","v","w","x","y","z",
      "aacute","agrave","acirc","atilde","eacute","ecirc","iacute","oacute","ocirc","otilde","uacute","ccedil">>

IndexOf(seq, x) == CHOOSE i \in 1..Len(seq) : seq[i] = x

UpperSet == Range(UpperLetters)
LowerSet == Range(LowerLetters)
LowerMap == [c \in UpperSet |-> LowerLetters[IndexOf(UpperLetters, c)]]
UpperMap == [c \in LowerSet |-> UpperLetters[IndexOf(LowerLetters, c)]]

LowerChar(c) == IF c \in UpperSet THEN LowerMap[c] ELSE c

UpperChar(c) == IF c \in LowerSet THEN UpperMap[c] ELSE c

Lower(s) == [i \in 1..Len(s) |-> LowerChar(s[i])]
Upper(s) == [i \in 1..Len(s) |-> UpperChar(s[i])]

\* str.strip(): drop the leading and the trailing whitespace.
Strip(s) ==
    LET nonWs == {i \in 1..Len(s) : s[i] \notin Whitespace}
    IN  IF nonWs = {} THEN <<>>
        ELSE LET lo == CHOOSE i \in nonWs : \A j \in nonWs : i <= j
                 hi == CHOOSE i \in nonWs : \A j \in nonWs : j <= i
             IN  SubSeq(s, lo, hi)

\* str.replace(a, b) for one-character a and b.
ReplaceChar(s, a, b) == [i \in 1..Len(s) |-> IF s[i] = a THEN b ELSE s[i]]

\* sub in s
Contains(s, sub) ==
    \E i \in 1..(Len(s) - Len(sub) + 1) : SubSeq(s, i, i + Len(sub) - 1) = sub

\* str.split(","): the pieces between the commas, empty pieces included.
RECURSIVE SplitComma(_)
SplitComma(s) ==
    LET commas == {i \in 1..Len(s) : s[i] = ","}
    IN  IF commas = {} THEN <<s>>
        ELSE LET k == CHOOSE i \in commas : \A j \in commas : i <= j
             IN  <<SubSeq(s, 1, k - 1)>> \o SplitComma(SubSeq(s, k + 1, Len(s)))

\* list(dict.fromkeys(seq)): duplicates removed, first occurrence kept.
Dedup(seq) ==
    LET keep == {i \in 1..Len(seq) : \A j \in 1..(i - 1) : seq[j] # seq[i]}
        F[i \in 0..Len(seq)] ==
            IF i = 0 THEN <<>>
            ELSE IF i \in keep THEN Append(F[i - 1], seq[i]) ELSE F[i - 1]
    IN  F[Len(seq)]

RECURSIVE Flatten(_)
Flatten(seqs) == IF seqs = <<>> THEN <<>> ELSE Head(seqs) \o Flatten(Tail(seqs))

\* Mutant: the last term is left out of the sum.
RECURSIVE SumSeq_DropLast(_)
SumSeq_DropLast(s) == IF Len(s) <= 1 THEN 0 ELSE Head(s) + SumSeq_DropLast(Tail(s))

RECURSIVE SumSeq(_)
SumSeq(s) == IF s = <<>> THEN 0 ELSE Head(s) + SumSeq(Tail(s))

Max(a, b) == IF a >= b THEN a ELSE b

\* ------------------------------------------------------------- app.py helpers
AccentFrom == <<"aacute","agrave","acirc","atilde","eacute","ecirc","iacute","oacute","ocirc","otilde","uacute","ccedil">>
AccentTo   == <<"a", "a", "a", "a", "e", "e", "i", "o", "o", "o", "u", "c">>

AccentSet == Range(AccentFrom)
AccentMap == [c \in AccentSet |-> AccentTo[IndexOf(AccentFrom, c)]]

normalize_header(header) ==
    LET low == Lower(Strip(header))
    IN  [i \in 1..Len(low) |-> IF low[i] \in AccentSet THEN AccentMap[low[i]] ELSE low[i]]

\* Mutant: the week starts on Sunday.
week_start_Sunday(given_date) == given_date - ((given_date + 1) % 7)

\* Day 0 is a Monday, so date.weekday() of day d is d % 7.
week_start(given_date) == given_date - (given_date % 7)

\* ------------------------------------------------------------ numbers as text
DigitMap == [c \in DigitSet |-> IndexOf(Digits, c) - 1]

DigitVal(c) == DigitMap[c]

RECURSIVE IntVal(_)
IntVal(ds) == IF ds = <<>> THEN 0 ELSE 10 * IntVal(SubSeq(ds, 1, Len(ds) - 1)) + DigitVal(ds[Len(ds)])

RECURSIVE NatText(_)
NatText(n) == IF n < 10 THEN <<Digits[n + 1]>> ELSE NatText(n \div 10) \o <<Digits[(n % 10) + 1]>>

\* str(n) of a Python int.
IntText(n) == IF n < 0 THEN <<"-">> \o NatText(0 - n) ELSE NatText(n)

AllDigits(s) == \A i \in 1..Len(s) : s[i] \in DigitSet

\* str.isdigit()
isdigit(s) == s # <<>> /\ AllDigits(s)

\* ------------------------------------------------------------------ dates
\* Day 0 is Monday 2024-01-01; the modelled dates lie in January 2024.
IsoPrefix == <<"2","0","2","4","-","0","1","-">>

\* date.isoformat()
isoformat(d) == IsoPrefix \o (IF d + 1 < 10 THEN <<"0">> \o NatText(d + 1) ELSE NatText(d + 1))

\* The result of a conversion that may raise: the value, or the exception.
Ok(v) == [err |-> "", v |-> v]
Raise(e) == [err |-> e, v |-> 0]
ValueError == "ValueError"
OverflowError == "OverflowError"

\* datetime.strptime(value, "%Y-%m-%d").date(): a four-digit year, then a
\* month and a day of one or two digits.  Dates outside January 2024 are
\* outside the modelled calendar and are reported as ValueError as well.
parse_iso_date(value) ==
    LET parts == SplitComma(ReplaceChar(value, "-", ","))
    IN  IF /\ "," \notin Range(value)
           /\ Len(parts) = 3
           /\ parts[1] = <<"2","0","2","4">>
           /\ parts[2] \in {<<"0","1">>, <<"1">>}
           /\ Len(parts[3]) \in {1, 2}
           /\ AllDigits(parts[3])
           /\ IntVal(parts[3]) \in 1..31
        THEN Ok(IntVal(parts[3]) - 1)
        ELSE Raise(ValueError)

\* ---------------------------------------------------------- spreadsheet cells
\* A cell value as openpyxl returns it with values_only=True.
NoneCell == [t |-> "none"]
IntCell(n) == [t |-> "int", v |-> n]
StrCell(s) == [t |-> "str", s |-> s]
DateCell(d) == [t |-> "date", d |-> d]

\* str(value)
PyStr(value) ==
    CASE value.t = "int" -> IntText(value.v)
      [] value.t = "str" -> value.s
      [] value.t = "date" -> isoformat(value.d)
      [] value.t = "none" -> <<"N","o","n","e">>

as_clean_text(value) == IF value.t = "none" THEN <<>> ELSE Strip(PyStr(value))

\* float(text) followed by int(round(.)): [sign] digits [. digits], rounded
\* half to even; "nan" makes round raise ValueError, "inf" OverflowError.
\* Exponents and underscores are not modelled (reported as ValueError).
RoundFloatText(text) ==
    LET signed == text # <<>> /\ text[1] \in {"+", "-"}
        neg == text # <<>> /\ text[1] = "-"
        body == IF signed THEN Tail(text) ELSE text
        word == Lower(body)
        dots == {i \in 1..Len(body) : body[i] = "."}
        k == IF dots = {} THEN Len(body) + 1 ELSE CHOOSE i \in dots : TRUE
        ip == SubSeq(body, 1, k - 1)
        fr == SubSeq(body, k + 1, Len(body))
        half == IF fr = <<>> THEN "below"
                ELSE IF DigitVal(fr[1]) > 5 THEN "above"
                ELSE IF DigitVal(fr[1]) < 5 THEN "below"
                ELSE IF \E i \in 2..Len(fr) : fr[i] # "0" THEN "above" ELSE "half"
        n == IntVal(ip)
        mag == CASE half = "below" -> n
                 [] half = "above" -> n + 1
                 [] half = "half" -> IF n % 2 = 0 THEN n ELSE n + 1
    IN  IF word \in {<<"i","n","f">>, <<"i","n","f","i","n","i","t","y">>} THEN Raise(OverflowError)
        ELSE IF word = <<"n","a","n">> THEN Raise(ValueError)
        ELSE IF Cardinality(dots) > 1 \/ ~AllDigits(ip) \/ ~AllDigits(fr) \/ (ip = <<>> /\ fr = <<>>)
        THEN Raise(ValueError)
        ELSE Ok(IF neg THEN 0 - mag ELSE mag)

\* Mutant: int(round(float(text))) without max(0, .).
parse_positive_int_NoClamp(value) ==
    LET text == ReplaceChar(as_clean_text(value), ",", ".")
        r == RoundFloatText(text)
    IN  IF text = <<>> THEN Ok(0)
        ELSE IF r.err = ValueError THEN Ok(0)
        ELSE r

parse_positive_int(value) ==
    LET text == ReplaceChar(as_clean_text(value), ",", ".")
        r == RoundFloatText(text)
    IN  IF text = <<>> THEN Ok(0)
        ELSE IF r.err = ValueError THEN Ok(0)
        ELSE IF r.err = OverflowError THEN r
        ELSE Ok(Max(0, r.v))

\* --------------------------------------------------------- identity resolver
None == "None"

\* Mutant: the digit may be followed by another digit.
SerieMatch_NoLookahead(s) ==
    LET hits == {i \in 1..Len(s) : s[i] \in {"1","2","3"}}
    IN  IF hits = {} THEN None ELSE s[CHOOSE i \in hits : \A j \in hits : i <= j]

\* re.search(r"([123])(?=[^0-9]|$)", s): the leftmost 1, 2 or 3 that is not
\* followed by a digit; None when there is none.
SerieMatch(s) ==
    LET hits == {i \in 1..Len(s) : s[i] \in {"1","2","3"} /\ (i = Len(s) \/ s[i + 1] \notin DigitSet)}
    IN  IF hits = {} THEN None ELSE s[CHOOSE i \in hits : \A j \in hits : i <= j]

\* The first element of seq whose position is in hits, None when hits is empty.
FirstAt(seq, hits) ==
    IF hits = {} THEN None ELSE seq[CHOOSE i \in hits : \A j \in hits : i <= j]

\* normalize_header(turma) and normalize_header(turma_label), per code.
NormalizedCode == [t \in TurmaSet |-> normalize_header(TurmaText(t))]
NormalizedLabel == [t \in TurmaSet |-> normalize_header(TURMAS_LABEL(t))]

map_turma_value(value) ==
    LET normalized == normalize_header(value)
        byCode == FirstAt(TURMAS, {i \in 1..Len(TURMAS) : NormalizedCode[TURMAS[i]] = normalized})
        byLabel == FirstAt(TURMAS_LABEL_ORDER,
                           {i \in 1..Len(TURMAS_LABEL_ORDER) :
                               NormalizedLabel[TURMAS_LABEL_ORDER[i]] = normalized})
        serie == SerieMatch(normalized)
    IN  IF normalized = <<>> THEN None
        ELSE IF byCode # None THEN byCode
        ELSE IF byLabel # None THEN byLabel
        ELSE IF Contains(normalized, <<"s","e","r","v","i","d","o","r">>) THEN "SERVIDORES"
        ELSE IF serie = None THEN None
        ELSE IF Contains(normalized, <<"i","n","f","o","r","m","a","t","i","c","a">>)
        THEN CASE serie = "1" -> "TIN I" [] serie = "2" -> "TIN II" [] serie = "3" -> "TIN III"
        ELSE IF Contains(normalized, <<"a","u","t","o","m","a","c","a","o">>)
        THEN CASE serie = "1" -> "TAI I" [] serie = "2" -> "TAI II" [] serie = "3" -> "TAI III"
        ELSE IF /\ Contains(normalized, <<"s","e","g","u","r","a","n","c","a">>)
                /\ Contains(normalized, <<"t","r","a","b","a","l","h","o">>)
        THEN CASE serie = "1" -> "TST I" [] serie = "2" -> "TST II" [] serie = "3" -> "TST III"
        ELSE None
\* ------------------------------------------------------------------- state
VARIABLES
    alunos,             \* table alunos: matricula -> [nome, turma]
    respostas,          \* table respostas: <<matricula, data_almoco>> -> [nome, turma, intencao]
    quadro_importado,   \* table quadro_importado: <<turma, data_almoco>> -> sim
    backups,            \* directory data/backups: file name -> archive
    today,              \* date.today()
    clock,              \* requests handled so far; a written file's st_mtime
    last,               \* the last request: handler, its locals at return, its response
    threads             \* the requests in progress: thread -> its position and locals

vars == <<alunos, respostas, quadro_importado, backups, today, clock, last, threads>>


EmptyTable == <<>>

\* INSERT ... ON CONFLICT(key) DO UPDATE SET <all columns> of one row.
Upsert(table, key, row) ==
    [k \in (DOMAIN table) \cup {key} |-> IF k = key THEN row ELSE table[k]]

\* -------------------------------------------------------- snapshot engine
\* The binary (BINARY collation) order of the class codes.
TurmaSorted ==
    <<"SERVIDORES", "TAI I", "TAI II", "TAI III", "TIN I", "TIN II", "TIN III",
      "TST I", "TST II", "TST III">>

\* ORDER BY data_almoco, turma
QuadroKeyLeq(a, b) ==
    \/ a[2] < b[2]
    \/ a[2] = b[2] /\ IndexOf(TurmaSorted, a[1]) <= IndexOf(TurmaSorted, b[1])

RECURSIVE QuadroOrdered(_)
QuadroOrdered(keys) ==
    IF keys = {} THEN <<>>
    ELSE LET m == CHOOSE k \in keys : \A j \in keys : QuadroKeyLeq(k, j)
         IN  <<m>> \o QuadroOrdered(keys \ {m})

Text_turma == <<"t","u","r","m","a">>
Text_data_almoco == <<"d","a","t","a","_","a","l","m","o","c","o">>
Text_sim == <<"s","i","m">>
Text_atualizado_em == <<"a","t","u","a","l","i","z","a","d","o","_","e","m">>

\* The sheet "quadro_importado" of an archive: the header row, then one row
\* of cells per table row (the timestamp cell is left out of the value).
QuadroSheet(quadro) ==
    LET keys == QuadroOrdered(DOMAIN quadro)
    IN  <<  <<StrCell(Text_turma), StrCell(Text_data_almoco), StrCell(Text_sim), StrCell(Text_atualizado_em)>>  >>
        \o [i \in 1..Len(keys) |->
              <<StrCell(TurmaText(keys[i][1])), StrCell(isoformat(keys[i][2])),
                IntCell(quadro[keys[i]]), NoneCell>>]

\* An archive file: its st_mtime, whether load_workbook can read it, its
\* sheets "respostas" and "alunos" (the tables as they were), whether it has
\* a sheet "quadro_importado", and the rows of cells of that sheet.
Archive(mtime, resp, alu, sheet) ==
    [mtime |-> mtime, readable |-> TRUE, respostas |-> resp, alunos |-> alu,
     has_quadro |-> TRUE, quadro |-> sheet]

BackupPath(day) == <<"almoco_backup_", day>>

\* Mutant: the files are sorted oldest first.
PruneVictims_OldestFirst(dir, max_backups) ==
    {f \in DOMAIN dir : Cardinality({g \in DOMAIN dir : dir[g].mtime < dir[f].mtime}) >= max_backups}

\* files[max_backups:] of the files sorted by st_mtime, newest first.
PruneVictims(dir, max_backups) ==
    {f \in DOMAIN dir : Cardinality({g \in DOMAIN dir : dir[g].mtime > dir[f].mtime}) >= max_backups}

\* unlinkFails: the files whose unlink raises OSError (swallowed).
prune_old_backups(dir, max_backups, unlinkFails) ==
    IF max_backups <= 0 THEN dir
    ELSE [f \in (DOMAIN dir) \ (PruneVictims(dir, max_backups) \ unlinkFails) |-> dir[f]]

\* The directory after write_backup_xlsx() has run to its end at time mtime.
write_backup_xlsx(dir, alu, resp, quadro, day, mtime, unlinkFails) ==
    prune_old_backups(
        Upsert(dir, BackupPath(day), Archive(mtime, resp, alu, QuadroSheet(quadro))),
        MAX_BACKUPS, unlinkFails)

\* The locals of a request whose write_backup_xlsx() ran to its end, with
\* the files prune_old_backups tried to unlink and those whose unlink failed.
Pruned(locals, victims, unlinkFails) ==
    [f \in (DOMAIN locals) \cup {"unlink_tried", "unlink_failed"} |->
        IF f = "unlink_tried" THEN victims
        ELSE IF f = "unlink_failed" THEN unlinkFails
        ELSE locals[f]]

\* The files prune_old_backups would try to delete after that write.
WriteVictims(dir, day, mtime) ==
    PruneVictims(Upsert(dir, BackupPath(day), Archive(mtime, <<>>, <<>>, <<>>)), MAX_BACKUPS)

\* --------------------------------------------------------------- responses
Success == "success"
InvalidInput == "InvalidInput"
ServerError == "ServerError"          \* an exception leaves the handler: HTTP 500
Forbidden == "Forbidden"
HeaderNotFound == "HeaderNotFound"
ZeroTotalGuard == "ZeroTotalGuard"
NoBackupFound == "NoBackupFound"
ImportParseFailure == "ImportParseFailure"

\* ------------------------------------------------------------- POST /enviar
\* The tokens of one raw "dias" value.
Partes(raw) ==
    LET normalizado == ReplaceChar(ReplaceChar(raw, ";", ","), " ", ",")
        pieces == SelectSeq(SplitComma(normalizado), LAMBDA item : Strip(item) # <<>>)
    IN  [i \in 1..Len(pieces) |-> Lower(Strip(pieces[i]))]

DiasMarcados(dias_raw) == Dedup(Flatten([i \in 1..Len(dias_raw) |-> Partes(dias_raw[i])]))

\* item in DIAS_SEMANA
IsDia(item) == \E d \in DiaSet : DiaText(d) = item

\* turma in TURMAS: the code whose text is exactly turma, or None.
TurmaCode(turma) == FirstAt(TURMAS, {i \in 1..Len(TURMAS) : TurmaText(TURMAS[i]) = turma})

Matricula(turma, nome) == Upper(<<"A","U","T","O",":",":">> \o turma \o <<":",":">> \o nome)

datas_semana(segunda) == [i \in 1..5 |-> segunda + (i - 1)]

\* Mutant: only the first selected day counts.
Intencao_FirstOnly(dia, dias_marcados) ==
    IF dias_marcados # <<>> /\ DiaText(dia) = dias_marcados[1] THEN "SIM" ELSE "NAO"

Intencao(dia, dias_marcados) == IF DiaText(dia) \in Range(dias_marcados) THEN "SIM" ELSE "NAO"

\* Mutant: a patch instead of a full-week overwrite: a day that is not
\* selected keeps the row it had.
RECURSIVE UpsertRespostas_Patch(_, _, _, _, _, _, _)
UpsertRespostas_Patch(resp, i, nome, matricula, turma, segunda, dias_marcados) ==
    IF i > 5 THEN resp
    ELSE UpsertRespostas_Patch(
            IF /\ <<matricula, datas_semana(segunda)[i]>> \in DOMAIN resp
               /\ Intencao(DIAS_SEMANA[i], dias_marcados) = "NAO"
            THEN resp
            ELSE Upsert(resp, <<matricula, datas_semana(segunda)[i]>>,
                        [nome |-> nome, turma |-> turma,
                         intencao |-> Intencao(DIAS_SEMANA[i], dias_marcados)]),
            i + 1, nome, matricula, turma, segunda, dias_marcados)

\* Mutant: the student's rows are deleted before the five inserts.
RECURSIVE UpsertRespostas_DeleteFirst(_, _, _, _, _, _, _)
UpsertRespostas_DeleteFirst(resp, i, nome, matricula, turma, segunda, dias_marcados) ==
    IF i > 5 THEN resp
    ELSE UpsertRespostas_DeleteFirst(
            Upsert(IF i = 1 THEN [k \in {j \in DOMAIN resp : j[1] # matricula} |-> resp[k]] ELSE resp,
                   <<matricula, datas_semana(segunda)[i]>>,
                   [nome |-> nome, turma |-> turma,
                    intencao |-> Intencao(DIAS_SEMANA[i], dias_marcados)]),
            i + 1, nome, matricula, turma, segunda, dias_marcados)

\* Mutant: a row is written only for the days that were selected.
RECURSIVE UpsertRespostas_OnlySelected(_, _, _, _, _, _, _)
UpsertRespostas_OnlySelected(resp, i, nome, matricula, turma, segunda, dias_marcados) ==
    IF i > 5 THEN resp
    ELSE UpsertRespostas_OnlySelected(
            IF Intencao(DIAS_SEMANA[i], dias_marcados) = "NAO" THEN resp
            ELSE Upsert(resp, <<matricula, datas_semana(segunda)[i]>>,
                        [nome |-> nome, turma |-> turma, intencao |-> "SIM"]),
            i + 1, nome, matricula, turma, segunda, dias_marcados)

\* The five upserts into respostas, in the order of datas_semana.
RECURSIVE UpsertRespostas(_, _, _, _, _, _, _)
UpsertRespostas(resp, i, nome, matricula, turma, segunda, dias_marcados) ==
    IF i > 5 THEN resp
    ELSE UpsertRespostas(
            Upsert(resp, <<matricula, datas_semana(segunda)[i]>>,
                   [nome |-> nome, turma |-> turma,
                    intencao |-> Intencao(DIAS_SEMANA[i], dias_marcados)]),
            i + 1, nome, matricula, turma, segunda, dias_marcados)

\* Mutant: the weekday tokens are not checked against DIAS_SEMANA.
EnviarErro_NoDiaCheck(nome, turmaCode, dias_marcados, data_referencia, parsed) ==
    IF nome = <<>> THEN "nome"
    ELSE IF turmaCode = None THEN "turma"
    ELSE IF dias_marcados = <<>> THEN "dias"
    ELSE IF data_referencia # <<>> /\ parsed.err # "" THEN "data"
    ELSE ""

\* The validation of the form: the first check that fails, "" when none does.
EnviarErro(nome, turmaCode, dias_marcados, data_referencia, parsed) ==
    IF nome = <<>> THEN "nome"
    ELSE IF turmaCode = None THEN "turma"
    ELSE IF dias_marcados = <<>> THEN "dias"
    ELSE IF \E i \in 1..Len(dias_marcados) : ~IsDia(dias_marcados[i]) THEN "dias_invalidos"
    ELSE IF data_referencia # <<>> /\ parsed.err # "" THEN "data"
    ELSE ""

\* What the request was and how it ended: the handler's locals.  A rejected
\* request keeps only the facts the checks looked at.
EnviarLocals(outcome, erro, nome, turma, dias_marcados, data_referencia, parsed, accepted) ==
    [op |-> "enviar", outcome |-> outcome, erro |-> erro,
     nome_vazio |-> (nome = <<>>),
     turma_valida |-> (\E t \in TurmaSet : TurmaText(t) = turma),
     dias_vazio |-> (dias_marcados = <<>>),
     dias_invalidos |-> (\E i \in 1..Len(dias_marcados) : \A d \in DiaSet : DiaText(d) # dias_marcados[i]),
     data_invalida |-> (data_referencia # <<>> /\ parsed.err # ""),
     nome |-> IF accepted THEN nome ELSE <<>>,
     turma |-> IF accepted THEN turma ELSE <<>>,
     matricula |-> IF accepted THEN Matricula(turma, nome) ELSE <<>>,
     data_ref |-> IF ~accepted THEN 0 ELSE IF data_referencia = <<>> THEN today ELSE parsed.v,
     segunda |-> IF ~accepted THEN 0
                 ELSE week_start(IF data_referencia = <<>> THEN today ELSE parsed.v),
     dias |-> IF accepted THEN {d \in DiaSet : DiaText(d) \in Range(dias_marcados)} ELSE {}]

\* backupRaises: write_backup_xlsx raises (mkdir or workbook.save fails).
enviar(nome_raw, turma_raw, data_raw, dias_raw) ==
    \E nome \in {Strip(nome_raw)}, turma \in {Strip(turma_raw)},
       data_referencia \in {Strip(data_raw)}, dias_marcados \in {DiasMarcados(dias_raw)} :
    \E turmaCode \in {TurmaCode(turma)}, matricula \in {Matricula(turma, nome)},
       parsed \in {parse_iso_date(data_referencia)} :
    \E erro \in {EnviarErro(nome, turmaCode, dias_marcados, data_referencia, parsed)} :
    LET data_ref == IF data_referencia # <<>> THEN parsed.v ELSE today
        segunda == week_start(data_ref)
    IN  /\ clock < MaxClock
        /\ clock' = clock + 1
        /\ UNCHANGED <<today, threads>>
        /\ IF erro # ""
           THEN /\ last' = EnviarLocals(InvalidInput, erro, nome, turma, dias_marcados,
                                        data_referencia, parsed, FALSE)
                /\ UNCHANGED <<alunos, respostas, quadro_importado, backups>>
           ELSE \E alu \in {Upsert(alunos, matricula, [nome |-> nome, turma |-> turmaCode])},
                   resp \in {UpsertRespostas(respostas, 1, nome, matricula, turmaCode,
                                              segunda, dias_marcados)} :
                /\ alunos' = alu
                /\ respostas' = resp
                /\ quadro_importado' = quadro_importado
                /\ \E backupRaises \in BOOLEAN : IF backupRaises
                   THEN /\ backups' = backups
                        /\ last' = EnviarLocals(ServerError, "backup", nome, turma, dias_marcados,
                                                data_referencia, parsed, TRUE)
                   ELSE \E victims \in {WriteVictims(backups, today, clock + 1)} : \E unlinkFails \in SUBSET victims :
                              /\ backups' = write_backup_xlsx(backups, alu, resp, quadro_importado,
                                                           today, clock + 1, unlinkFails)
                              /\ last' = Pruned(EnviarLocals(Success, "", nome, turma, dias_marcados,
                                                data_referencia, parsed, TRUE), victims, unlinkFails)

\* ------------------------------- POST /enviar, one thread for each request
MaxThreads == 2

Threads == 1..MaxThreads

\* Mutant: a connection in autocommit mode, every statement its own transaction.
isolation_level_None == "autocommit"

\* sqlite3.connect(DB_PATH) with the defaults of the module: a transaction is
\* opened implicitly before the first INSERT and lasts until conn.commit().
isolation_level == "DEFERRED"

NoView == [alunos |-> EmptyTable, respostas |-> EmptyTable]

NoForm == [nome |-> <<>>, turma |-> <<>>, data |-> <<>>, dias |-> <<>>]

\* A thread with no request.  begin_no and commit_no place the request among
\* the commits: how many had happened when it arrived, and which one was its own.
Idle ==
    [pc |-> "idle", form |-> NoForm, nome |-> <<>>, turma |-> "", matricula |-> <<>>,
     segunda |-> 0, dias_marcados |-> <<>>, i |-> 0, in_txn |-> FALSE, view |-> NoView,
     begin_no |-> 0, commit_no |-> 0, day |-> 0, respostas_rows |-> EmptyTable,
     alunos_rows |-> EmptyTable, quadro_rows |-> EmptyTable, outcome |-> ""]

\* The request of thread th has returned: its connection and its row lists are gone.
Returned(th, outcome) ==
    [th EXCEPT !.pc = "done", !.outcome = outcome, !.in_txn = FALSE, !.view = NoView,
               !.respostas_rows = EmptyTable, !.alunos_rows = EmptyTable,
               !.quadro_rows = EmptyTable]

Commits(ths) == Cardinality({u \in DOMAIN ths : ths[u].commit_no > 0})

\* Mutant: no write lock on the database file.
Locked_Never(ths, t) == FALSE

\* Another connection is inside a write transaction: it holds the RESERVED
\* lock of the database file from its first INSERT until its commit.
Locked(ths, t) == \E u \in (DOMAIN ths) \ {t} : ths[u].in_txn

\* Statement th.i of the request on the tables seen by its connection: the
\* upsert into alunos (0), then the upsert into respostas of day th.i (1..5).
ExecuteOn(view, th) ==
    IF th.i = 0
    THEN [view EXCEPT !.alunos = Upsert(@, th.matricula, [nome |-> th.nome, turma |-> th.turma])]
    ELSE [view EXCEPT !.respostas =
              Upsert(@, <<th.matricula, datas_semana(th.segunda)[th.i]>>,
                     [nome |-> th.nome, turma |-> th.turma,
                      intencao |-> Intencao(DIAS_SEMANA[th.i], th.dias_marcados)])]

ThreadLocals(th, outcome, erro, accepted) ==
    EnviarLocals(outcome, erro, Strip(th.form.nome), Strip(th.form.turma),
                 DiasMarcados(th.form.dias), Strip(th.form.data),
                 parse_iso_date(Strip(th.form.data)), accepted)

\* The request arrives: the form is read and validated.
Begin(t, form) ==
    \E nome \in {Strip(form.nome)}, turma \in {Strip(form.turma)},
       data_referencia \in {Strip(form.data)}, dias_marcados \in {DiasMarcados(form.dias)} :
    \E turmaCode \in {TurmaCode(turma)}, parsed \in {parse_iso_date(data_referencia)} :
    \E erro \in {EnviarErro(nome, turmaCode, dias_marcados, data_referencia, parsed)} :
        /\ threads[t].pc = "idle"
        /\ UNCHANGED <<alunos, respostas, quadro_importado, backups, today>>
        /\ IF erro # ""
           THEN /\ clock' = clock + 1
                /\ last' = EnviarLocals(InvalidInput, erro, nome, turma, dias_marcados,
                                        data_referencia, parsed, FALSE)
                /\ threads' = [threads EXCEPT ![t] = Returned([Idle EXCEPT !.form = form], InvalidInput)]
           ELSE /\ UNCHANGED <<clock, last>>
                /\ threads' = [threads EXCEPT ![t] =
                      [Idle EXCEPT !.pc = "execute", !.form = form, !.nome = nome,
                                   !.begin_no = Commits(threads),
                                   !.turma = turmaCode, !.matricula = Matricula(turma, nome),
                                   !.segunda = week_start(IF data_referencia # <<>> THEN parsed.v ELSE today),
                                   !.dias_marcados = dias_marcados]]

\* conn.execute(INSERT ... ON CONFLICT ... DO UPDATE): the next statement of
\* the with-block, once the write lock is free or already held.
Execute(t) ==
    \E th \in {threads[t]} :
        /\ th.pc = "execute"
        /\ ~Locked(threads, t)
        /\ UNCHANGED <<quadro_importado, backups, today, clock, last>>
        /\ \E after \in {ExecuteOn(IF th.in_txn THEN th.view
                                   ELSE [alunos |-> alunos, respostas |-> respostas], th)} :
           \E next \in {[th EXCEPT !.i = th.i + 1,
                                   !.pc = IF th.i = 5 THEN "commit" ELSE "execute"]} :
              IF isolation_level = "autocommit"
              THEN /\ alunos' = after.alunos
                   /\ respostas' = after.respostas
                   /\ threads' = [threads EXCEPT ![t] = next]
              ELSE /\ UNCHANGED <<alunos, respostas>>
                   /\ threads' = [threads EXCEPT ![t] = [next EXCEPT !.in_txn = TRUE, !.view = after]]

\* The first INSERT waits for the write lock longer than the connection's
\* timeout: sqlite3.OperationalError leaves the handler, nothing was written.
Busy(t) ==
    \E th \in {threads[t]} :
        /\ th.pc = "execute"
        /\ ~th.in_txn
        /\ Locked(threads, t)
        /\ UNCHANGED <<alunos, respostas, quadro_importado, backups, today>>
        /\ clock' = clock + 1
        /\ last' = ThreadLocals(th, ServerError, "locked", TRUE)
        /\ threads' = [threads EXCEPT ![t] = Returned(th, ServerError)]

\* conn.commit(): the six upserts reach the tables at once; then
\* write_backup_xlsx() starts and names its file after date.today().
Commit(t) ==
    \E th \in {threads[t]} :
        /\ th.pc = "commit"
        /\ UNCHANGED <<quadro_importado, backups, today, clock, last>>
        /\ IF th.in_txn
           THEN alunos' = th.view.alunos /\ respostas' = th.view.respostas
           ELSE UNCHANGED <<alunos, respostas>>
        /\ threads' = [threads EXCEPT ![t] =
              [th EXCEPT !.pc = "read_respostas", !.in_txn = FALSE, !.view = NoView,
                         !.commit_no = Commits(threads) + 1, !.day = today]]

\* The three SELECT ... fetchall() of write_backup_xlsx, each a read of the
\* committed table at the time it runs.
ReadRespostas(t) ==
    /\ threads[t].pc = "read_respostas"
    /\ threads' = [threads EXCEPT ![t].pc = "read_alunos", ![t].respostas_rows = respostas]
    /\ UNCHANGED <<alunos, respostas, quadro_importado, backups, today, clock, last>>

ReadAlunos(t) ==
    /\ threads[t].pc = "read_alunos"
    /\ threads' = [threads EXCEPT ![t].pc = "read_quadro", ![t].alunos_rows = alunos]
    /\ UNCHANGED <<alunos, respostas, quadro_importado, backups, today, clock, last>>

ReadQuadro(t) ==
    /\ threads[t].pc = "read_quadro"
    /\ threads' = [threads EXCEPT ![t].pc = "save", ![t].quadro_rows = quadro_importado]
    /\ UNCHANGED <<alunos, respostas, quadro_importado, backups, today, clock, last>>

\* workbook.save(backup_path), prune_old_backups(30) and the redirect.
Save(t) ==
    \E th \in {threads[t]} :
        /\ th.pc = "save"
        /\ UNCHANGED <<alunos, respostas, quadro_importado, today>>
        /\ clock' = clock + 1
        /\ \E backupRaises \in BOOLEAN : IF backupRaises
           THEN /\ backups' = backups
                /\ last' = ThreadLocals(th, ServerError, "backup", TRUE)
                /\ threads' = [threads EXCEPT ![t] = Returned(th, ServerError)]
           ELSE \E victims \in {WriteVictims(backups, th.day, clock + 1)} : \E unlinkFails \in SUBSET victims :
                      /\ backups' = write_backup_xlsx(backups, th.alunos_rows, th.respostas_rows,
                                                   th.quadro_rows, th.day, clock + 1, unlinkFails)
                      /\ last' = Pruned(ThreadLocals(th, Success, "", TRUE), victims, unlinkFails)
                /\ threads' = [threads EXCEPT ![t] = Returned(th, Success)]

\* ------------------------------------------------ weekly aggregation engine
\* SELECT turma, data_almoco, SUM(CASE WHEN intencao = 'SIM' THEN 1 ELSE 0 END)
\* FROM respostas WHERE data_almoco BETWEEN segunda AND sexta GROUP BY turma, data_almoco
TurmaSemanaRows(resp, segunda, sexta) ==
    LET inRange == {k \in DOMAIN resp : segunda <= k[2] /\ k[2] <= sexta}
        groups == {<<resp[k].turma, k[2]>> : k \in inRange}
    IN  [g \in groups |->
            Cardinality({k \in inRange : resp[k].turma = g[1] /\ k[2] = g[2]
                                         /\ resp[k].intencao = "SIM"})]

\* week_map.get(data_almoco): the weekday code of a date of the week, or None.
WeekMapGet(segunda, data) ==
    IF data \in segunda..(segunda + 4) THEN DIAS_SEMANA[data - segunda + 1] ELSE None

\* Mutant: the imported headcount replaces the response count.
ReconciledCell_ImportWins(resp_rows, quadro, segunda, sexta, turma, dia) ==
    LET data == segunda + IndexOf(DIAS_SEMANA, dia) - 1
    IN  IF <<turma, data>> \in DOMAIN quadro /\ data <= sexta
        THEN Max(0, quadro[<<turma, data>>])
        ELSE IF <<turma, data>> \in DOMAIN resp_rows THEN resp_rows[<<turma, data>>] ELSE 0

\* turma_semana[turma][dia] after the two loops (lines 236-259).
ReconciledCell(resp_rows, quadro, segunda, sexta, turma, dia) ==
    LET hitsR == {g \in DOMAIN resp_rows : g[1] = turma /\ WeekMapGet(segunda, g[2]) = dia}
        fromR == IF hitsR = {} THEN 0 ELSE resp_rows[CHOOSE g \in hitsR : TRUE]
        hitsI == {k \in DOMAIN quadro : /\ segunda <= k[2] /\ k[2] <= sexta
                                        /\ k[1] = turma /\ WeekMapGet(segunda, k[2]) = dia}
    IN  IF hitsI = {} THEN fromR
        ELSE Max(fromR, Max(0, quadro[CHOOSE k \in hitsI : TRUE]))

build_quadro_semana(resp, quadro, segunda, sexta) ==
    LET resp_rows == TurmaSemanaRows(resp, segunda, sexta)
        turma_semana ==
            [t \in TurmaSet |->
                LET cells == [d \in DiaSet |-> ReconciledCell(resp_rows, quadro, segunda, sexta, t, d)]
                IN  [seg |-> cells["seg"], ter |-> cells["ter"], qua |-> cells["qua"],
                     qui |-> cells["qui"], sex |-> cells["sex"],
                     total |-> cells["seg"] + cells["ter"] + cells["qua"] + cells["qui"] + cells["sex"]]]
        semana_sim ==
            [seg |-> SumSeq([i \in 1..Len(TURMAS) |-> turma_semana[TURMAS[i]].seg]),
             ter |-> SumSeq([i \in 1..Len(TURMAS) |-> turma_semana[TURMAS[i]].ter]),
             qua |-> SumSeq([i \in 1..Len(TURMAS) |-> turma_semana[TURMAS[i]].qua]),
             qui |-> SumSeq([i \in 1..Len(TURMAS) |-> turma_semana[TURMAS[i]].qui]),
             sex |-> SumSeq([i \in 1..Len(TURMAS) |-> turma_semana[TURMAS[i]].sex])]
        quadro_rows ==
            [idx \in 1..Len(TURMAS_ORDEM_QUADRO) |->
                LET item == turma_semana[TURMAS_ORDEM_QUADRO[idx]]
                IN  [ordem |-> idx, turma_nome |-> TURMAS_LABEL(TURMAS_ORDEM_QUADRO[idx]),
                     seg |-> item.seg, ter |-> item.ter, qua |-> item.qua,
                     qui |-> item.qui, sex |-> item.sex, total |-> item.total]]
    IN  [semana_sim |-> semana_sim, quadro_rows |-> quadro_rows,
         total_semana_geral |-> semana_sim.seg + semana_sim.ter + semana_sim.qua
                                + semana_sim.qui + semana_sim.sex]

\* --------------------------------------------------------- admin requests
ADMIN_TOKEN == "ifc-sbs"

\* is_admin_allowed(): the token of the query string.
is_admin_allowed(token) == token = ADMIN_TOKEN

\* Mutant: the token is compared without regard to case.
is_admin_allowed_form_IgnoreCase(token) == token \in {"ifc-sbs", "ifc-sbS", "IFC-SBS"}

\* is_admin_allowed_form(): the token of the form.
is_admin_allowed_form(token) == token = ADMIN_TOKEN

\* data_base of the admin forms: the parsed "data" field, today when the
\* field is empty or does not parse.
DataBase(data_filtro) ==
    IF data_filtro = <<>> THEN today
    ELSE IF parse_iso_date(data_filtro).err # "" THEN today
    ELSE parse_iso_date(data_filtro).v

\* values[idx] if idx < len(values) else default (idx counted from 1 here).
CellAt(values, idx, default) == IF idx <= Len(values) THEN values[idx] ELSE default

Min(a, b) == IF a <= b THEN a ELSE b

EndsWith(s, suffix) ==
    Len(s) >= Len(suffix) /\ SubSeq(s, Len(s) - Len(suffix) + 1, Len(s)) = suffix

\* ------------------------------------------- POST /admin/importar_quadro
required_cols == <<Text_turma, <<"s","e","g">>, <<"t","e","r">>, <<"q","u","a">>, <<"q","u","i">>, <<"s","e","x">>>>

Candidate(row) == [i \in 1..Len(row) |-> normalize_header(as_clean_text(row[i]))]

IsHeader(row) == \A c \in 1..Len(required_cols) : required_cols[c] \in Range(Candidate(row))

\* Mutant: every row of the sheet is scanned.
HeaderRowIdx_NoLimit(rows) ==
    LET hits == {idx \in 1..Len(rows) : IsHeader(rows[idx])}
    IN  IF hits = {} THEN 0 ELSE CHOOSE idx \in hits : \A j \in hits : idx <= j

\* The index of the header row among rows[:15], 0 when there is none.
HeaderRowIdx(rows) ==
    LET hits == {idx \in 1..Min(HEADER_SCAN_ROWS, Len(rows)) : IsHeader(rows[idx])}
    IN  IF hits = {} THEN 0 ELSE CHOOSE idx \in hits : \A j \in hits : idx <= j

\* header.index(col), per required column (1 = turma, 2..6 = seg..sex).
ColIndex(header) ==
    [c \in 1..Len(required_cols) |->
        CHOOSE i \in 1..Len(header) :
            header[i] = required_cols[c] /\ \A j \in 1..(i - 1) : header[j] # required_cols[c]]

\* One data row: the class it resolves to (None when the row is skipped) and
\* the five parsed weekday cells.
ImportRow(values, col_index) ==
    LET first == as_clean_text(CellAt(values, col_index[1], StrCell(<<>>)))
        turma_raw == IF isdigit(first) /\ col_index[1] + 1 <= Len(values)
                     THEN as_clean_text(values[col_index[1] + 1]) ELSE first
        turma == IF turma_raw = <<>> THEN None
                 ELSE IF normalize_header(turma_raw) = <<"t","o","t","a","l">> THEN None
                 ELSE map_turma_value(turma_raw)
    IN  [turma |-> turma,
         linha |-> IF turma = None THEN <<>>
                   ELSE [d \in 1..5 |-> parse_positive_int(CellAt(values, col_index[d + 1], IntCell(0)))]]

\* Mutant: a later row of a class replaces the earlier one.
Accumulate_LastWins(quadro_import, turma, linha) ==
    Upsert(quadro_import, turma, linha)

\* quadro_import after one more row of the class (lines 866-873).
Accumulate(quadro_import, turma, linha) ==
    IF turma \notin DOMAIN quadro_import THEN Upsert(quadro_import, turma, linha)
    ELSE Upsert(quadro_import, turma, [d \in 1..5 |-> quadro_import[turma][d] + linha[d]])

\* The loop over rows[header_row_idx + 1:]: the per-class sums, the resolved
\* rows in order, and the exception a cell raised, if any.
RECURSIVE QuadroImport(_, _, _, _)
QuadroImport(rows, i, col_index, acc) ==
    IF i > Len(rows) \/ acc.err # "" THEN acc
    ELSE LET r == ImportRow(rows[i], col_index)
         IN  QuadroImport(rows, i + 1, col_index,
                IF r.turma = None THEN acc
                ELSE IF \E d \in 1..5 : r.linha[d].err # ""
                THEN [acc EXCEPT !.err = OverflowError]
                ELSE LET linha == [d \in 1..5 |-> r.linha[d].v]
                     IN  [err |-> "",
                          map |-> Accumulate(acc.map, r.turma, linha),
                          linhas |-> Append(acc.linhas, [turma |-> r.turma, linha |-> linha])])

TotalImportado(quadro_import) ==
    LET ts == QuadroOrdered({<<t, 0>> : t \in DOMAIN quadro_import})
    IN  SumSeq([i \in 1..Len(ts) |-> SumSeq(quadro_import[ts[i][1]])])

\* Mutant: a zero total is imported like any other.
ImportErro_NoZeroGuard(file, header_row_idx, parsed) ==
    IF file.filename = <<>> THEN "sem_arquivo"
    ELSE IF ~EndsWith(Lower(file.filename), <<".","x","l","s","x">>) THEN "nao_xlsx"
    ELSE IF ~file.readable THEN "ilegivel"
    ELSE IF file.rows = <<>> THEN "vazio"
    ELSE IF header_row_idx = 0 THEN "cabecalho"
    ELSE IF parsed.err # "" THEN "excecao"
    ELSE IF DOMAIN parsed.map = {} THEN "sem_turma"
    ELSE ""

\* The checks of the handler in order: the first that fails, "" when none.
ImportErro(file, header_row_idx, parsed) ==
    IF file.filename = <<>> THEN "sem_arquivo"
    ELSE IF ~EndsWith(Lower(file.filename), <<".","x","l","s","x">>) THEN "nao_xlsx"
    ELSE IF ~file.readable THEN "ilegivel"
    ELSE IF file.rows = <<>> THEN "vazio"
    ELSE IF header_row_idx = 0 THEN "cabecalho"
    ELSE IF parsed.err # "" THEN "excecao"
    ELSE IF DOMAIN parsed.map = {} THEN "sem_turma"
    ELSE IF TotalImportado(parsed.map) = 0 THEN "total_zero"
    ELSE ""

ImportOutcome(erro) ==
    CASE erro \in {"sem_arquivo", "nao_xlsx"} -> InvalidInput
      [] erro \in {"ilegivel", "vazio", "sem_turma"} -> ImportParseFailure
      [] erro = "cabecalho" -> HeaderNotFound
      [] erro = "excecao" -> ServerError
      [] erro = "total_zero" -> ZeroTotalGuard

\* Mutant: DO UPDATE SET sim = sim + excluded.sim.
ApplyImport_Adding(quadro, quadro_import, segunda) ==
    [k \in (DOMAIN quadro) \cup {<<t, segunda + (d - 1)>> : t \in DOMAIN quadro_import, d \in 1..5} |->
        IF k[1] \in DOMAIN quadro_import /\ k[2] \in segunda..(segunda + 4)
        THEN (IF k \in DOMAIN quadro THEN quadro[k] ELSE 0) + quadro_import[k[1]][k[2] - segunda + 1]
        ELSE quadro[k]]

\* The upserts of lines 886-898.
ApplyImport(quadro, quadro_import, segunda) ==
    [k \in (DOMAIN quadro) \cup {<<t, segunda + (d - 1)>> : t \in DOMAIN quadro_import, d \in 1..5} |->
        IF k[1] \in DOMAIN quadro_import /\ k[2] \in segunda..(segunda + 4)
        THEN quadro_import[k[1]][k[2] - segunda + 1]
        ELSE quadro[k]]

NoImport == [err |-> "", map |-> <<>>, linhas |-> <<>>]

ImportLocals(outcome, erro, autorizado, segunda, header_row_idx, parsed) ==
    [op |-> "importar_quadro", outcome |-> outcome, erro |-> erro, autorizado |-> autorizado,
     segunda |-> segunda, header_row_idx |-> header_row_idx,
     quadro_import |-> parsed.map, linhas |-> parsed.linhas]

\* What the handler makes of the uploaded file alone (lines 797-882): the
\* header row, the per-class sums and the check that fails, if any.
ReadQuadroFile(file) ==
    LET header_row_idx == IF file.filename # <<>> /\ file.readable THEN HeaderRowIdx(file.rows) ELSE 0
        parsed == IF header_row_idx = 0 THEN NoImport
                  ELSE QuadroImport(file.rows, header_row_idx + 1,
                                    ColIndex(Candidate(file.rows[header_row_idx])), NoImport)
    IN  [header_row_idx |-> header_row_idx, parsed |-> parsed,
         erro |-> ImportErro(file, header_row_idx, parsed)]

importar_quadro_semanal(token, file, data_filtro, read) ==
    \E segunda \in {week_start(DataBase(data_filtro))} :
    \E header_row_idx \in {read.header_row_idx}, parsed \in {read.parsed}, erro \in {read.erro} :
        /\ clock < MaxClock
        /\ clock' = clock + 1
        /\ UNCHANGED <<today, threads>>
        /\ UNCHANGED <<alunos, respostas>>
        /\ IF ~is_admin_allowed_form(token)
           THEN /\ last' = ImportLocals(Forbidden, "token", FALSE, 0, 0, NoImport)
                /\ UNCHANGED <<quadro_importado, backups>>
           ELSE IF erro # ""
           THEN /\ last' = ImportLocals(ImportOutcome(erro), erro, TRUE, segunda, header_row_idx,
                                        IF erro \in {"sem_turma", "total_zero"} THEN parsed ELSE NoImport)
                /\ UNCHANGED <<quadro_importado, backups>>
           ELSE \E quadro \in {ApplyImport(quadro_importado, parsed.map, segunda)} :
                /\ quadro_importado' = quadro
                /\ \E backupRaises \in BOOLEAN : IF backupRaises
                   THEN /\ backups' = backups
                        /\ last' = ImportLocals(ServerError, "backup", TRUE, segunda,
                                                header_row_idx, parsed)
                   ELSE \E victims \in {WriteVictims(backups, today, clock + 1)} : \E unlinkFails \in SUBSET victims :
                              /\ backups' = write_backup_xlsx(backups, alunos, respostas, quadro,
                                                           today, clock + 1, unlinkFails)
                              /\ last' = Pruned(ImportLocals(Success, "", TRUE, segunda, header_row_idx, parsed), victims, unlinkFails)

\* ------------------------------------------ POST /admin/restaurar_backup
required_backup == <<Text_turma, Text_data_almoco, Text_sim>>

\* backup_files: the names in the directory, newest st_mtime first.
RECURSIVE NewestFirst(_, _)
NewestFirst(dir, names) ==
    IF names = {} THEN <<>>
    ELSE LET f == CHOOSE n \in names : \A m \in names : dir[m].mtime <= dir[n].mtime
         IN  <<f>> \o NewestFirst(dir, names \ {f})

RECURSIVE OldestFirst(_, _)
OldestFirst(dir, names) ==
    IF names = {} THEN <<>>
    ELSE LET f == CHOOSE n \in names : \A m \in names : dir[n].mtime <= dir[m].mtime
         IN  <<f>> \o OldestFirst(dir, names \ {f})

\* Mutant: the oldest archive is examined first.
BackupFiles_OldestFirst(dir) == OldestFirst(dir, DOMAIN dir)

BackupFiles(dir) == NewestFirst(dir, DOMAIN dir)

\* The date of a data_almoco cell: a date cell as it is, a text cell parsed.
RowDate(data_raw) ==
    IF data_raw.t = "date" THEN Ok(data_raw.d) ELSE parse_iso_date(as_clean_text(data_raw))

\* Mutant: the rows are not filtered by the week.
InWindow_Any(data_row, segunda, sexta) == TRUE

\* not (data_row < segunda or data_row > sexta)
InWindow(data_row, segunda, sexta) == ~(data_row < segunda \/ data_row > sexta)

\* candidate_rows of one archive (lines 943-988): <<turma, data, sim>> per
\* row kept, and the exception a cell raised, if any.
RECURSIVE CandidateLoop(_, _, _, _, _, _)
CandidateLoop(rows, i, idx, segunda, sexta, acc) ==
    IF i > Len(rows) \/ acc.err # "" THEN acc
    ELSE LET values == rows[i]
             turma == map_turma_value(as_clean_text(CellAt(values, idx[1], StrCell(<<>>))))
             data_row == RowDate(CellAt(values, idx[2], StrCell(<<>>)))
             sim == parse_positive_int(CellAt(values, idx[3], IntCell(0)))
         IN  CandidateLoop(rows, i + 1, idx, segunda, sexta,
                IF turma = None THEN acc
                ELSE IF data_row.err # "" THEN acc
                ELSE IF ~InWindow(data_row.v, segunda, sexta) THEN acc
                ELSE IF sim.err # "" THEN [acc EXCEPT !.err = sim.err]
                ELSE [acc EXCEPT !.rows = Append(@, <<turma, data_row.v, sim.v>>)])

NoCandidates == [err |-> "", rows |-> <<>>]

CandidateRows(archive, segunda, sexta) ==
    IF ~archive.readable THEN NoCandidates
    ELSE IF ~archive.has_quadro THEN NoCandidates
    ELSE IF archive.quadro = <<>> THEN NoCandidates
    ELSE LET header == Candidate(archive.quadro[1])
         IN  IF ~(\A c \in 1..3 : required_backup[c] \in Range(header)) THEN NoCandidates
             ELSE CandidateLoop(archive.quadro, 2,
                    [c \in 1..3 |-> CHOOSE j \in 1..Len(header) :
                        header[j] = required_backup[c] /\ \A h \in 1..(j - 1) : header[h] # required_backup[c]],
                    segunda, sexta, NoCandidates)

NoFile == <<"", 0>>

\* The loop over backup_files (lines 941-993): the archive selected, its
\* rows, and the archives examined up to it.
RECURSIVE SelectBackup(_, _, _, _, _, _)
SelectBackup(dir, files, i, segunda, sexta, examined) ==
    IF i > Len(files)
    THEN [err |-> "", found |-> FALSE, selected_backup |-> NoFile, linhas |-> <<>>, examined |-> examined]
    ELSE LET c == CandidateRows(dir[files[i]], segunda, sexta)
         IN  IF c.err # ""
             THEN [err |-> c.err, found |-> FALSE, selected_backup |-> NoFile, linhas |-> <<>>,
                   examined |-> Append(examined, files[i])]
             ELSE IF c.rows # <<>>
             THEN [err |-> "", found |-> TRUE, selected_backup |-> files[i], linhas |-> c.rows,
                   examined |-> Append(examined, files[i])]
             ELSE SelectBackup(dir, files, i + 1, segunda, sexta, Append(examined, files[i]))

\* Mutant: rows of the same class and date are added up.
RECURSIVE ApplyRestore_Summing(_, _, _)
ApplyRestore_Summing(quadro, linhas, i) ==
    IF i > Len(linhas) THEN quadro
    ELSE LET k == <<linhas[i][1], linhas[i][2]>>
             dup == \E j \in 1..(i - 1) : <<linhas[j][1], linhas[j][2]>> = k
         IN  ApplyRestore_Summing(
                Upsert(quadro, k, IF dup THEN quadro[k] + linhas[i][3] ELSE linhas[i][3]),
                linhas, i + 1)

\* Mutant: the rows stored for the week are deleted before the upserts.
RECURSIVE ApplyRestore_ReplaceWeek(_, _, _)
ApplyRestore_ReplaceWeek(quadro, linhas, i) ==
    IF i > Len(linhas) THEN quadro
    ELSE LET segunda == linhas[1][2] - (linhas[1][2] % 7)
             kept == IF i = 1
                     THEN [k \in {j \in DOMAIN quadro : j[2] \notin segunda..(segunda + 4)} |-> quadro[k]]
                     ELSE quadro
         IN  ApplyRestore_ReplaceWeek(
                Upsert(kept, <<linhas[i][1], linhas[i][2]>>, linhas[i][3]), linhas, i + 1)

\* The upserts of lines 1006-1017, row by row.
RECURSIVE ApplyRestore(_, _, _)
ApplyRestore(quadro, linhas, i) ==
    IF i > Len(linhas) THEN quadro
    ELSE ApplyRestore(Upsert(quadro, <<linhas[i][1], linhas[i][2]>>, linhas[i][3]), linhas, i + 1)

RestoreLocals(outcome, erro, autorizado, segunda, sel) ==
    [op |-> "restaurar_backup", outcome |-> outcome, erro |-> erro, autorizado |-> autorizado,
     segunda |-> segunda, found |-> sel.found, selected_backup |-> sel.selected_backup,
     linhas_restauracao |-> sel.linhas, examined |-> sel.examined]

NoSelection ==
    [err |-> "", found |-> FALSE, selected_backup |-> NoFile, linhas |-> <<>>, examined |-> <<>>]

restaurar_backup_quadro(token, data_filtro) ==
    \E segunda \in {week_start(DataBase(data_filtro))} :
    \E sel \in {IF is_admin_allowed_form(token)
                THEN SelectBackup(backups, BackupFiles(backups), 1, segunda, segunda + 4, <<>>)
                ELSE NoSelection} :
        /\ clock < MaxClock
        /\ clock' = clock + 1
        /\ UNCHANGED <<today, threads>>
        /\ UNCHANGED <<alunos, respostas>>
        /\ IF ~is_admin_allowed_form(token)
           THEN /\ last' = RestoreLocals(Forbidden, "token", FALSE, 0, NoSelection)
                /\ UNCHANGED <<quadro_importado, backups>>
           ELSE IF backups = EmptyTable
           THEN /\ last' = RestoreLocals(NoBackupFound, "sem_backup", TRUE, segunda, NoSelection)
                /\ UNCHANGED <<quadro_importado, backups>>
           ELSE IF sel.err # ""
           THEN /\ last' = RestoreLocals(ServerError, "excecao", TRUE, segunda, sel)
                /\ UNCHANGED <<quadro_importado, backups>>
           ELSE IF ~sel.found
           THEN /\ last' = RestoreLocals(NoBackupFound, "sem_linhas", TRUE, segunda, sel)
                /\ UNCHANGED <<quadro_importado, backups>>
           ELSE \E quadro \in {ApplyRestore(quadro_importado, sel.linhas, 1)} :
                /\ quadro_importado' = quadro
                /\ \E backupRaises \in BOOLEAN : IF backupRaises
                   THEN /\ backups' = backups
                        /\ last' = RestoreLocals(ServerError, "backup", TRUE, segunda, sel)
                   ELSE \E victims \in {WriteVictims(backups, today, clock + 1)} : \E unlinkFails \in SUBSET victims :
                              /\ backups' = write_backup_xlsx(backups, alunos, respostas, quadro,
                                                           today, clock + 1, unlinkFails)
                              /\ last' = Pruned(RestoreLocals(Success, "", TRUE, segunda, sel), victims, unlinkFails)

\* ------------------------------------------- POST /admin/importar_alunos
RosterImportError == "RosterImportError"

Text_nome == <<"n","o","m","e">>
Text_matricula == <<"m","a","t","r","i","c","u","l","a">>

\* next((h for h in candidates if h in first_row_keys), None)
FirstKey(candidates, keys) == FirstAt(candidates, {i \in 1..Len(candidates) : candidates[i] \in keys})

\* as_clean_text(row.get(key))
RowGet(row, key) == IF key \in DOMAIN row THEN Strip(row[key]) ELSE <<>>

\* The checks before the table is written, on what reading the file gave:
\* file.read is "" when the rows were read, else the check that failed.
AlunosErro(file, nome_key, matricula_key, turma_key) ==
    IF ~file.present THEN "sem_arquivo"
    ELSE IF file.read # "" THEN file.read
    ELSE IF file.rows = <<>> THEN "sem_dados"
    ELSE IF nome_key = None \/ matricula_key = None \/ turma_key = None THEN "colunas"
    ELSE ""

\* The loop over rows_for_import: the table and the count of rows upserted.
RECURSIVE UpsertAlunos(_, _, _, _, _, _)
UpsertAlunos(acc, rows, i, nome_key, matricula_key, turma_key) ==
    IF i > Len(rows) THEN acc
    ELSE LET nome == RowGet(rows[i], nome_key)
             matricula == RowGet(rows[i], matricula_key)
             turma == TurmaCode(RowGet(rows[i], turma_key))
         IN  UpsertAlunos(
                IF nome = <<>> \/ matricula = <<>> \/ turma = None THEN acc
                ELSE [alunos |-> Upsert(acc.alunos, matricula, [nome |-> nome, turma |-> turma]),
                      importados |-> acc.importados + 1],
                rows, i + 1, nome_key, matricula_key, turma_key)

AlunosLocals(outcome, erro, autorizado, importados) ==
    [op |-> "importar_alunos", outcome |-> outcome, erro |-> erro, autorizado |-> autorizado,
     importados |-> importados]

importar_alunos(token, file) ==
    \E keys \in {IF file.rows = <<>> THEN {} ELSE DOMAIN file.rows[1]} :
    \E nome_key \in {FirstKey(<<Text_nome, <<"a","l","u","n","o">>,
                               <<"n","o","m","e"," ","c","o","m","p","l","e","t","o">> >>, keys)},
       matricula_key \in {FirstKey(<<Text_matricula,
                                    <<"m","a","t","r","i","c","u","l","a"," ","a","l","u","n","o">>,
                                    <<"r","a">> >>, keys)},
       turma_key \in {FirstKey(<<Text_turma, <<"s","e","r","i","e">>, <<"c","l","a","s","s","e">> >>, keys)} :
    \E erro \in {AlunosErro(file, nome_key, matricula_key, turma_key)} :
        /\ clock < MaxClock
        /\ clock' = clock + 1
        /\ UNCHANGED <<today, threads, respostas, quadro_importado>>
        /\ IF ~is_admin_allowed_form(token)
           THEN /\ last' = AlunosLocals(Forbidden, "token", FALSE, 0)
                /\ UNCHANGED <<alunos, backups>>
           ELSE IF erro # ""
           THEN /\ last' = AlunosLocals(RosterImportError, erro, TRUE, 0)
                /\ UNCHANGED <<alunos, backups>>
           ELSE \E done \in {UpsertAlunos([alunos |-> alunos, importados |-> 0], file.rows, 1,
                                           nome_key, matricula_key, turma_key)} :
                /\ alunos' = done.alunos
                /\ \E backupRaises \in BOOLEAN : IF backupRaises
                   THEN /\ backups' = backups
                        /\ last' = AlunosLocals(ServerError, "backup", TRUE, done.importados)
                   ELSE \E victims \in {WriteVictims(backups, today, clock + 1)} :
                        \E unlinkFails \in SUBSET victims :
                           /\ backups' = write_backup_xlsx(backups, done.alunos, respostas,
                                                           quadro_importado, today, clock + 1,
                                                           unlinkFails)
                           /\ last' = Pruned(IF done.importados = 0
                                             THEN AlunosLocals(RosterImportError, "nenhum", TRUE, 0)
                                             ELSE AlunosLocals(Success, "", TRUE, done.importados),
                                             victims, unlinkFails)

\* ------------------- GET /admin, /admin/planilha and the /admin/export routes
AdminGetRoutes ==
    {"admin", "planilha_semana", "export_semana_csv", "export_csv", "export_quadro_csv",
     "export_quadro_xlsx"}

\* The page or the file is built from SELECTs only; its content is not kept.
admin_get(route, token) ==
    /\ clock < MaxClock
    /\ clock' = clock + 1
    /\ UNCHANGED <<alunos, respostas, quadro_importado, backups, today, threads>>
    /\ last' = [op |-> route, autorizado |-> is_admin_allowed(token),
                outcome |-> IF is_admin_allowed(token) THEN Success ELSE Forbidden]

\* ------------------------------------------------- the backup directory
\* An administrator copies an archive into data/backups, keeping the old
\* modification time of the copy (older than every archive written since).
PlaceBackupFile(slot, archive) ==
    /\ <<"almoco_backup_x", slot>> \notin DOMAIN backups
    /\ backups' = Upsert(backups, <<"almoco_backup_x", slot>>, [archive EXCEPT !.mtime = 0 - slot])
    /\ UNCHANGED <<alunos, respostas, quadro_importado, today, clock, last, threads>>

\* An administrator empties data/backups.
RemoveBackups ==
    /\ backups # EmptyTable
    /\ backups' = EmptyTable
    /\ UNCHANGED <<alunos, respostas, quadro_importado, today, clock, last, threads>>

\* The calendar day passes.
NextDay ==
    /\ today < MaxToday
    /\ today' = today + 1
    /\ UNCHANGED <<alunos, respostas, quadro_importado, backups, clock, last, threads>>

\* init_db(): the three empty tables, then a first archive of them.
Init ==
    /\ alunos = EmptyTable
    /\ respostas = EmptyTable
    /\ quadro_importado = EmptyTable
    /\ today = 0
    /\ clock = 0
    /\ backups = write_backup_xlsx(EmptyTable, EmptyTable, EmptyTable, EmptyTable, 0, 0, {})
    /\ last = [op |-> "init_db", outcome |-> Success]
    /\ threads = [t \in Threads |-> Idle]

\* ------------------------------------------------ inputs of the submit form
Form(nome, turma, data, dias) == [nome |-> nome, turma |-> turma, data |-> data, dias |-> dias]

Nome_ana == <<"a","n","a">>
Nome_Ana == <<" ","A","n","a","\t">>
Nome_bo == <<"b","o">>
Dias_seg == << <<"s","e","g">> >>
Dias_ter_qua_sex == << <<"T","E","R",";"," ","q","u","a">>, <<"t","e","r",",","s","e","x">> >>

\* "ana" and " Ana<tab>" of TIN I are one student; "bo" of TAI II is another.
Pessoas ==
    { <<Nome_ana, TurmaText("TIN I")>>,
      <<Nome_bo, <<" ">> \o TurmaText("TAI II")>> }

\* Each person with a Wednesday of each week or no date (today), and each
\* selection of days.
ValidForms ==
    LET datas == { isoformat(7 * w + 2) : w \in 0..MaxWeek } \cup { <<>> }
        dias_validos == { Dias_seg, Dias_ter_qua_sex }
    IN  { Form(p[1], p[2], data, dias) : p \in Pessoas, data \in datas, dias \in dias_validos }
        \cup { Form(Nome_Ana, TurmaText("TIN I"), isoformat(2), dias) : dias \in dias_validos }

InvalidForms ==
    { Form(<<" ","\t">>, TurmaText("TIN I"), isoformat(2), Dias_seg),
      Form(Nome_ana, <<"t","i","n"," ","i">>, isoformat(2), Dias_seg),
      Form(Nome_ana, <<>>, <<>>, Dias_ter_qua_sex),
      Form(Nome_ana, TurmaText("TIN I"), isoformat(2), << >>),
      Form(Nome_Ana, TurmaText("TIN I"), <<>>, << <<" ",",",";">> >>),
      Form(Nome_ana, TurmaText("TIN I"), isoformat(2), << <<"s","e","g">>, <<"s","a","b">> >>),
      Form(Nome_bo, TurmaText("TAI II"), isoformat(2), << <<"s","e","g","t","e","r">> >>),
      Form(Nome_ana, TurmaText("TIN I"), <<"2","0","2","4","-","0","1">>, Dias_seg),
      Form(<<>>, <<"X">>, <<"h","o","j","e">>, << <<"d","o","m">> >>),
      Form(<<>>, TurmaText("TAI II"), isoformat(9), << >>) }

EnviarStep ==
    \E form \in ValidForms \cup InvalidForms :
        enviar(form.nome, form.turma, form.data, form.dias)

NextSubmit == EnviarStep \/ NextDay

SpecSubmit == Init /\ [][NextSubmit]_vars
\* --------------------------------------------- submits on separate threads
\* "ana" of TIN I twice in week 0 with different days (the second time as
\* " Ana<tab>"), "ana" with no date (today) and in week 1, "bo" of TAI II,
\* and a form with no name.
ThreadForms ==
    { Form(Nome_ana, TurmaText("TIN I"), isoformat(2), Dias_seg),
      Form(Nome_Ana, TurmaText("TIN I"), isoformat(3), Dias_ter_qua_sex),
      Form(Nome_ana, TurmaText("TIN I"), <<>>, Dias_ter_qua_sex),
      Form(Nome_ana, TurmaText("TIN I"), isoformat(9), Dias_seg),
      Form(Nome_bo, <<" ">> \o TurmaText("TAI II"), isoformat(2), Dias_seg),
      Form(<<" ">>, TurmaText("TIN I"), isoformat(2), Dias_seg) }

BeginStep(t) == \E form \in ThreadForms : Begin(t, form)

NextThreads ==
    \E t \in Threads :
        \/ BeginStep(t)
        \/ Execute(t)
        \/ Busy(t)
        \/ Commit(t)
        \/ ReadRespostas(t)
        \/ ReadAlunos(t)
        \/ ReadQuadro(t)
        \/ Save(t)

SpecThreads == Init /\ [][NextThreads]_vars
\* ------------------------------------------ the two functions on their own
MaxDate == 35

\* Class labels as a spreadsheet may carry them: the codes and the full
\* labels in three spellings, and every pairing of a run of digits with a
\* phrase, in both orders.
DigitRuns ==
    { <<>>, <<"1">>, <<"2">>, <<"3">>, <<"4">>, <<"0">>, <<"1","2">>, <<"2","1">>,
      <<"3","0">>, <<"1"," ","3">>, <<"2","o">>, <<"4","a","3">> }

Phrases ==
    { <<>>, <<"i","n","f","o","r","m","a","t","i","c","a">>,
      <<"I","N","F","O","R","M","Aacute","T","I","C","A">>,
      <<"i","n","f","o","r","m","a","t","i","c">>,
      <<"a","u","t","o","m","a","c","a","o">>,
      <<"A","u","t","o","m","a","ccedil","atilde","o">>,
      <<"s","e","g","u","r","a","n","c","a">>,
      <<"t","r","a","b","a","l","h","o">>,
      <<"t","r","a","b","a","l","h","o"," ","e"," ","s","e","g","u","r","a","n","ccedil","a">>,
      <<"a","u","t","o","m","a","c","a","o"," ","e"," ","i","n","f","o","r","m","a","t","i","c","a">>,
      <<"s","e","r","v","i","d","o","r">>,
      <<"S","e","r","v","i","d","o","r","a","s"," ","i","n","f","o","r","m","a","t","i","c","a">>,
      <<"x","y","z">>, <<"t","i","n">> }

Labels ==
    { TurmaText(c) : c \in TurmaSet }
    \cup { <<" ">> \o Lower(TurmaText(c)) \o <<"\t">> : c \in TurmaSet }
    \cup { TURMAS_LABEL(c) : c \in TurmaSet }
    \cup { Lower(TURMAS_LABEL(c)) : c \in TurmaSet }
    \cup { normalize_header(TURMAS_LABEL(c)) \o <<" ">> : c \in TurmaSet }
    \cup { d \o <<" ">> \o ph : d \in DigitRuns, ph \in Phrases }
    \cup { ph \o <<" ">> \o d : d \in DigitRuns, ph \in Phrases }
    \cup { <<"S","E","R","V","I","D","O","R">>, <<" ","\t">> }

MapTurmaStep ==
    /\ \E value \in Labels :
          last' = [op |-> "map_turma_value", value |-> value, result |-> map_turma_value(value)]
    /\ UNCHANGED <<alunos, respostas, quadro_importado, backups, today, clock, threads>>

WeekStartStep ==
    /\ \E given_date \in (0 - MaxDate)..MaxDate :
          last' = [op |-> "week_start", given_date |-> given_date,
                   result |-> week_start(given_date),
                   again |-> week_start(week_start(given_date))]
    /\ UNCHANGED <<alunos, respostas, quadro_importado, backups, today, clock, threads>>

NextFunctions == MapTurmaStep \/ WeekStartStep

SpecFunctions == Init /\ [][NextFunctions]_vars
\* ---------------------------------------------- inputs of the admin forms


Xlsx(rows) == [filename |-> <<"q",".","X","L","S","X">>, readable |-> TRUE, rows |-> rows]

HeaderRow == <<StrCell(<<"T","u","r","m","a">>), StrCell(<<"S","E","G">>), StrCell(<<" ","t","e","r">>), StrCell(<<"q","u","a">>), StrCell(<<"Q","u","i">>), StrCell(<<"s","e","x">>)>>

\* A title row, the header, two rows of TAI I (seg 2 and 3, ter "1,5" and
\* nothing), a total row.
File_TaiTwice ==
    Xlsx(<< <<StrCell(<<"Q","u","a","d","r","o">>), NoneCell, NoneCell, NoneCell, NoneCell, NoneCell>>,
            HeaderRow,
            <<StrCell(TurmaText("TAI I")), IntCell(2), StrCell(<<"1",",","5">>), NoneCell, NoneCell, IntCell(1)>>,
            <<StrCell(<<" ","t","a","i"," ","i">>), IntCell(3), NoneCell, StrCell(<<"x">>), IntCell(-4), IntCell(0)>>,
            <<StrCell(<<"T","O","T","A","L">>), IntCell(5), IntCell(2), IntCell(0), IntCell(0), IntCell(1)>> >>)

\* TIN I with ter 5 and nothing else.
File_Tin ==
    Xlsx(<< HeaderRow,
            <<StrCell(TurmaText("TIN I")), IntCell(0), IntCell(5), IntCell(0), IntCell(0), IntCell(0)>> >>)

\* A numbered sheet: the class column holds the row number, the next column
\* the descriptive label.
File_Numbered ==
    Xlsx(<< <<StrCell(Text_turma), StrCell(<<"c","u","r","s","o">>), StrCell(<<"s","e","g">>), StrCell(<<"t","e","r">>),
              StrCell(<<"q","u","a">>), StrCell(<<"q","u","i">>), StrCell(<<"s","e","x">>)>>,
            <<IntCell(1), StrCell(TURMAS_LABEL("TIN II")), IntCell(1), IntCell(0), IntCell(0), IntCell(0), IntCell(2)>>,
            <<IntCell(2), StrCell(<<"S","E","R","V","I","D","O","R">>), IntCell(0), IntCell(0), IntCell(0), IntCell(3)>> >>)

\* Every cell parses to 0.
File_Zeros ==
    Xlsx(<< HeaderRow,
            <<StrCell(TurmaText("TIN I")), IntCell(0), NoneCell, StrCell(<<"a","b","c">>), StrCell(<<"-","3">>), StrCell(<<"0",",","4">>)>>,
            <<StrCell(TurmaText("TAI I")), IntCell(0), IntCell(0), IntCell(0), IntCell(0), IntCell(0)>> >>)

\* The header in row 15 and in row 16, below rows of notes.
File_HeaderAt(n) ==
    Xlsx([i \in 1..(n - 1) |-> <<StrCell(<<"n","o","t","a">>), IntCell(i)>>]
         \o << HeaderRow,
                <<StrCell(TurmaText("TST I")), IntCell(4), IntCell(0), IntCell(0), IntCell(0), IntCell(0)>> >>)

\* Two header rows, the second with seg and ter exchanged: TIN II has seg 1
\* and ter 2 by the first header.
File_TwoHeaders ==
    Xlsx(<< <<StrCell(<<"Q","u","a","d","r","o">>)>>,
            HeaderRow,
            <<StrCell(Text_turma), StrCell(<<"t","e","r">>), StrCell(<<"s","e","g">>), StrCell(<<"q","u","a">>),
              StrCell(<<"q","u","i">>), StrCell(<<"s","e","x">>)>>,
            <<StrCell(TurmaText("TIN II")), IntCell(1), IntCell(2), IntCell(0), IntCell(0), IntCell(0)>> >>)

\* Files that fail a check: no header row, no row of a known class, a cell
\* "inf", an unreadable workbook, another extension, no file, an empty sheet.
FailingFiles ==
    { Xlsx(<< <<StrCell(TurmaText("TIN I")), IntCell(1), IntCell(1), IntCell(1), IntCell(1), IntCell(1)>> >>),
      Xlsx(<< HeaderRow,
              <<StrCell(<<"x","y","z">>), IntCell(1), IntCell(1), IntCell(1), IntCell(1), IntCell(1)>>,
              <<NoneCell, IntCell(1), IntCell(1), IntCell(1), IntCell(1), IntCell(1)>> >>),
      Xlsx(<< HeaderRow,
              <<StrCell(TurmaText("TIN I")), StrCell(<<"i","n","f">>), IntCell(1), IntCell(1), IntCell(1), IntCell(1)>> >>),
      [filename |-> <<"q",".","x","l","s","x">>, readable |-> FALSE, rows |-> <<>>],
      [filename |-> <<"q",".","c","s","v">>, readable |-> TRUE, rows |-> <<>>],
      [filename |-> <<>>, readable |-> FALSE, rows |-> <<>>],
      Xlsx(<< >>) }

\* The "data" field of the admin forms: a Wednesday of each week, or empty.
DatasAdmin == { isoformat(7 * w + 2) : w \in 0..MaxWeek } \cup { <<>> }

ImportRequests ==
    { [token |-> ADMIN_TOKEN, file |-> f, data |-> d] :
        f \in {File_TaiTwice, File_Tin, File_Numbered, File_Zeros}, d \in DatasAdmin }
    \cup { [token |-> ADMIN_TOKEN, file |-> f, data |-> <<"h","o","j","e">>] :
        f \in FailingFiles \cup {File_Tin} }
    \cup { [token |-> "ifc-sbS", file |-> File_Tin, data |-> <<>>] }
    \cup { [token |-> ADMIN_TOKEN, file |-> f, data |-> <<>>] :
        f \in {File_HeaderAt(15), File_HeaderAt(16), File_TwoHeaders} }

RestoreRequests ==
    { [token |-> ADMIN_TOKEN, data |-> d] : d \in DatasAdmin }
    \cup { [token |-> "", data |-> <<>>] }

\* Archives copied in by hand.
BackupHeader == <<StrCell(Text_turma), StrCell(Text_data_almoco), StrCell(Text_sim), StrCell(Text_atualizado_em)>>

External(has_quadro, sheet) ==
    [mtime |-> 0, readable |-> TRUE, respostas |-> EmptyTable, alunos |-> EmptyTable,
     has_quadro |-> has_quadro, quadro |-> sheet]

\* Week 0: TIN I on Monday twice (3, then 5 under another spelling and with
\* a date cell), an unknown class, a Saturday; week 1: TAI I.
Ext_A ==
    External(TRUE,
        << BackupHeader,
           <<StrCell(TurmaText("TIN I")), StrCell(isoformat(0)), IntCell(3), NoneCell>>,
           <<StrCell(<<"x","y","z">>), StrCell(isoformat(1)), IntCell(9), NoneCell>>,
           <<StrCell(<<"t","i","n"," ","i">>), DateCell(0), IntCell(5), NoneCell>>,
           <<StrCell(TurmaText("TIN I")), StrCell(isoformat(5)), IntCell(8), NoneCell>>,
           <<StrCell(TurmaText("TAI I")), StrCell(isoformat(7)), IntCell(2), NoneCell>> >>)

\* Columns in another order; week 0: TIN II on Tuesday ("4,6"), TIN I on
\* Monday; week 1: SERVIDORES.
Ext_B ==
    External(TRUE,
        << <<StrCell(<<"S","I","M">>), StrCell(<<"T","u","r","m","a">>), StrCell(<<"D","a","t","a","_","A","l","m","o","c","o">>)>>,
           <<StrCell(<<"4",",","6">>), StrCell(<<"2"," ","i","n","f","o","r","m","a","t","i","c","a">>), StrCell(isoformat(1))>>,
           <<IntCell(7), StrCell(<<"S","E","R","V","I","D","O","R">>), StrCell(isoformat(8))>>,
           <<IntCell(1), StrCell(TurmaText("TIN I")), StrCell(isoformat(0))>> >>)

\* A workbook without the sheet quadro_importado.
Ext_C == External(FALSE, << >>)

\* Week 0: TST I on Thursday with a negative count and on Sunday,
\* SERVIDORES on Friday with the text "-1,5".
Ext_D ==
    External(TRUE,
        << BackupHeader,
           <<StrCell(TurmaText("TST I")), StrCell(isoformat(3)), IntCell(0 - 2), NoneCell>>,
           <<StrCell(TurmaText("TST I")), StrCell(isoformat(6)), IntCell(4), NoneCell>>,
           <<StrCell(TurmaText("SERVIDORES")), DateCell(4), StrCell(<<"-","1",",","5">>), NoneCell>> >>)

ExternalArchives == {Ext_A, Ext_B, Ext_C, Ext_D}

\* Two students of TIN I.
QuadroForms ==
    { Form(Nome_ana, TurmaText("TIN I"), isoformat(2), Dias_ter_qua_sex),
      Form(Nome_bo, TurmaText("TIN I"), <<>>, Dias_ter_qua_sex) }

EnviarQuadroStep ==
    \E form \in QuadroForms :
        enviar(form.nome, form.turma, form.data, form.dias)

ImportFiles == {req.file : req \in ImportRequests}

\* ReadQuadroFile, tabulated over the uploaded files.
ReadQuadroFiles == [file \in ImportFiles |-> ReadQuadroFile(file)]

ImportarStep ==
    \E req \in ImportRequests :
        importar_quadro_semanal(req.token, req.file, req.data,
                                ReadQuadroFiles[req.file])

RestaurarStep ==
    \E req \in RestoreRequests :
        restaurar_backup_quadro(req.token, req.data)

\* The admin pages and the submit form on the system's own archives.
NextQuadro ==
    \/ EnviarQuadroStep
    \/ ImportarStep
    \/ RestaurarStep
    \/ NextDay

SpecQuadro == Init /\ [][NextQuadro]_vars

\* ------------------------------------ restoring with archives copied in
BackupImportRequests ==
    { [token |-> ADMIN_TOKEN, file |-> f, data |-> d] :
        f \in {File_Tin}, d \in DatasAdmin }

ImportarBackupStep ==
    \E req \in BackupImportRequests :
        importar_quadro_semanal(req.token, req.file, req.data,
                                ReadQuadroFiles[req.file])

PlaceStep == \E slot \in 1..MaxExt, archive \in ExternalArchives : PlaceBackupFile(slot, archive)

NextBackups ==
    \/ ImportarBackupStep
    \/ RestaurarStep
    \/ PlaceStep
    \/ RemoveBackups

SpecBackups == Init /\ [][NextBackups]_vars

\* ------------------------ restoring while responses and headcounts are stored
NextRestore ==
    \/ EnviarQuadroStep
    \/ ImportarBackupStep
    \/ RestaurarStep
    \/ PlaceStep

SpecRestore == Init /\ [][NextRestore]_vars

\* ---------------------------------------------- every admin operation
WrongTokens == {"", "ifc-sbS", "ifc-sbs ", "ifc-sb", "IFC-SBS"}

CsvRow(nome, matricula, turma) ==
    (Text_nome :> nome) @@ (Text_matricula :> matricula) @@ (Text_turma :> turma)

\* A roster of two students and a row of an unknown class; a roster under
\* other column names with no row of a known class; a file without the
\* column turma; a file that cannot be read; no file.
AlunosFiles ==
    { [present |-> TRUE, read |-> "",
       rows |-> << CsvRow(<<"C","a","i","o">>, <<"7","1">>, TurmaText("TST I")),
                   CsvRow(<<"D","i","a">>, <<"7","2">>, <<"t","s","t"," ","i">>),
                   CsvRow(Nome_ana, Matricula(TurmaText("TIN I"), Nome_ana), TurmaText("TIN II")) >>],
      [present |-> TRUE, read |-> "",
       rows |-> << (<<"a","l","u","n","o">> :> Nome_bo) @@ (<<"r","a">> :> <<"9">>)
                   @@ (<<"s","e","r","i","e">> :> <<"1">>) >>],
      [present |-> TRUE, read |-> "",
       rows |-> << (Text_nome :> Nome_bo) @@ (Text_matricula :> <<"9">>) >>],
      [present |-> TRUE, read |-> "ilegivel", rows |-> <<>>],
      [present |-> FALSE, read |-> "", rows |-> <<>>] }

AlunosRequests ==
    { [token |-> ADMIN_TOKEN, file |-> f] : f \in AlunosFiles }
    \cup { [token |-> tk, file |-> f] : tk \in WrongTokens, f \in AlunosFiles }

ImportarAlunosStep == \E req \in AlunosRequests : importar_alunos(req.token, req.file)

AdminGetStep ==
    \E route \in AdminGetRoutes, token \in WrongTokens \cup {ADMIN_TOKEN} : admin_get(route, token)

RefusedRequests ==
    { [token |-> tk, file |-> File_Tin, data |-> d] : tk \in WrongTokens, d \in {<<>>, isoformat(9)} }

ImportarRefusedStep ==
    \E req \in RefusedRequests :
        importar_quadro_semanal(req.token, req.file, req.data, ReadQuadroFiles[File_Tin])

RestaurarRefusedStep ==
    \E req \in RefusedRequests : restaurar_backup_quadro(req.token, req.data)

NextAdmin ==
    \/ EnviarQuadroStep
    \/ ImportarBackupStep
    \/ ImportarRefusedStep
    \/ RestaurarStep
    \/ RestaurarRefusedStep
    \/ ImportarAlunosStep
    \/ AdminGetStep

SpecAdmin == Init /\ [][NextAdmin]_vars

\* ------------------------------------------- a directory with many archives
MaxFiles == 32

\* An administrator copies one more old archive into the directory, under
\* the first name that is free.
FillStep ==
    /\ Cardinality(DOMAIN backups) < MaxFiles
    /\ \E slot \in 1..MaxFiles :
          /\ \A s \in 1..(slot - 1) : <<"almoco_backup_x", s>> \in DOMAIN backups
          /\ PlaceBackupFile(slot, Ext_C)

NextRetention == FillStep \/ ImportarBackupStep \/ NextDay

SpecRetention == Init /\ [][NextRetention]_vars

\* ------------------------------------------------------ claims on /enviar
SubmitAccepted(l) == l.op = "enviar" /\ l.outcome = Success

WeekRows(resp, matricula, segunda) ==
    {k \in DOMAIN resp : k[1] = matricula /\ k[2] \in segunda..(segunda + 6)}

\* C1: after a successful submit the student has exactly five rows in the
\* targeted week, the Monday..Friday of the week of the reference date, and
\* a weekday's row is SIM exactly when the weekday was selected, NAO otherwise.
C1_FiveRowsReflectSelection ==
    SubmitAccepted(last) =>
        /\ last.segunda % 7 = 0
        /\ last.data_ref \in last.segunda..(last.segunda + 6)
        /\ WeekRows(respostas, last.matricula, last.segunda)
               = {<<last.matricula, last.segunda + i>> : i \in 0..4}
        /\ \A i \in 1..5 :
              LET row == respostas[<<last.matricula, last.segunda + (i - 1)>>]
              IN  /\ row.intencao \in Range(INTENCOES)
                  /\ row.intencao = "SIM" <=> DIAS_SEMANA[i] \in last.dias

\* A successful submit of ter, qua, sex by a student who also has a week of
\* rows elsewhere.
C1_Witness ==
    /\ SubmitAccepted(last)
    /\ last.dias = {"ter", "qua", "sex"}
    /\ Cardinality({k \in DOMAIN respostas : k[1] = last.matricula}) = 10

\* C3: a resubmission by the same student for the same week leaves five rows
\* that reflect the latest selection only (a day that was SIM and is not
\* selected now becomes NAO), and submitting the same selection again changes
\* no row.
C3_ResubmitOverwrites ==
    [][ SubmitAccepted(last') =>
          LET m == last'.matricula
              seg == last'.segunda
          IN  /\ Cardinality(WeekRows(respostas', m, seg)) = 5
              /\ \A i \in 1..5 :
                    LET k == <<m, seg + (i - 1)>>
                    IN  /\ (k \in DOMAIN respostas /\ DIAS_SEMANA[i] \notin last'.dias)
                              => respostas'[k].intencao = "NAO"
                        /\ DIAS_SEMANA[i] \in last'.dias => respostas'[k].intencao = "SIM"
              /\ ( /\ SubmitAccepted(last)
                   /\ last.matricula = m /\ last.nome = last'.nome
                   /\ last.segunda = seg /\ last.dias = last'.dias )
                 => (respostas' = respostas /\ alunos' = alunos)
      ]_vars

\* A resubmission has turned a day from SIM (as an earlier archive still
\* shows) into NAO.
C3_Witness ==
    /\ SubmitAccepted(last)
    /\ \E f \in DOMAIN backups : \E k \in DOMAIN backups[f].respostas :
          /\ k[1] = last.matricula
          /\ week_start(k[2]) = last.segunda
          /\ backups[f].respostas[k].intencao = "SIM"
          /\ respostas[k].intencao = "NAO"

\* C6: when the snapshot write fails during a valid submission, the rows are
\* committed and the caller still receives the success outcome.
C6_SnapshotFailureStillSucceeds ==
    (last.op = "enviar" /\ last.erro = "backup") =>
        /\ WeekRows(respostas, last.matricula, last.segunda)
               = {<<last.matricula, last.segunda + i>> : i \in 0..4}
        /\ last.matricula \in DOMAIN alunos
        /\ last.outcome = Success

\* C10: a submit whose name is empty after trimming, whose class is not a
\* canonical code, whose parsed weekday list is empty or holds a token that is
\* no weekday code, fails with InvalidInput and changes neither the roster,
\* nor the responses, nor the archives.
C10_InvalidSubmitRejected ==
    [][ ( /\ last'.op = "enviar"
          /\ \/ last'.nome_vazio
             \/ ~last'.turma_valida
             \/ last'.dias_vazio
             \/ last'.dias_invalidos )
        => ( /\ last'.outcome = InvalidInput
             /\ alunos' = alunos
             /\ respostas' = respostas
             /\ backups' = backups )
      ]_vars

\* A submit with a bad weekday token and nothing else wrong is rejected while
\* the stores hold rows.
C10_Witness ==
    /\ last.op = "enviar"
    /\ last.outcome = InvalidInput
    /\ last.dias_invalidos /\ ~last.dias_vazio /\ ~last.nome_vazio /\ last.turma_valida
    /\ respostas # EmptyTable

\* ---- the weekly grid
ResponseCount(c, data) ==
    Cardinality({k \in DOMAIN respostas :
                    respostas[k].turma = c /\ k[2] = data /\ respostas[k].intencao = "SIM"})

ImportedHeadcount(c, data) ==
    IF <<c, data>> \in DOMAIN quadro_importado
    THEN (IF quadro_importado[<<c, data>>] < 0 THEN 0 ELSE quadro_importado[<<c, data>>])
    ELSE 0

GridRow(rows, c) == rows[CHOOSE i \in 1..Len(rows) : rows[i].turma_nome = TURMAS_LABEL(c)]

GridCell(row, i) ==
    CASE i = 1 -> row.seg [] i = 2 -> row.ter [] i = 3 -> row.qua [] i = 4 -> row.qui [] i = 5 -> row.sex

\* C2: for every Monday..Friday week, class c and weekday w, the cell [c][w]
\* of the weekly grid is the larger of R, the number of SIM response rows of
\* class c on that date, and I, the imported headcount stored for (c, date)
\* clamped to non-negative (0 when there is no row).
C2_CellIsMaxOfResponsesAndImport ==
    \A w \in 0..MaxWeek :
        \A grid \in {build_quadro_semana(respostas, quadro_importado, 7 * w, 7 * w + 4)} :
            \A c \in TurmaSet : \A row \in {GridRow(grid.quadro_rows, c)} : \A i \in 1..5 :
                LET R == ResponseCount(c, 7 * w + (i - 1))
                    I == ImportedHeadcount(c, 7 * w + (i - 1))
                    cell == GridCell(row, i)
                IN  /\ cell = (IF R >= I THEN R ELSE I)
                    /\ cell >= R
                    /\ cell >= I

\* In one week a class has a day whose import (5) exceeds its one response
\* and a day whose response exceeds a stored import of 0.
C2_Witness ==
    \E w \in 0..MaxWeek, c \in TurmaSet :
        /\ ResponseCount(c, 7 * w + 1) = 1
        /\ ImportedHeadcount(c, 7 * w + 1) = 5
        /\ ResponseCount(c, 7 * w + 2) = 1
        /\ <<c, 7 * w + 2>> \in DOMAIN quadro_importado
        /\ ImportedHeadcount(c, 7 * w + 2) = 0

\* ---- the bulk import
ImportRan(l) == l.op = "importar_quadro" /\ l.autorizado

ImportStored(l) == ImportRan(l) /\ (l.outcome = Success \/ l.erro = "backup")

AllCellsZero(linhas) == \A i \in 1..Len(linhas) : \A d \in 1..5 : linhas[i].linha[d] = 0

\* C4: an import whose parsed cells are all 0 is rejected, and the imported
\* headcounts, the responses and the roster are as they were before it.
C4_ZeroImportRejected ==
    [][ ( /\ clock' = clock + 1
          /\ ImportRan(last')
          /\ last'.erro \in {"", "backup", "total_zero"}
          /\ AllCellsZero(last'.linhas) )
        => ( /\ last'.outcome = ZeroTotalGuard
             /\ quadro_importado' = quadro_importado
             /\ respostas' = respostas
             /\ alunos' = alunos )
      ]_vars

\* An all-zero sheet of two classes is rejected while headcounts are stored.
C4_Witness ==
    /\ ImportRan(last)
    /\ last.outcome = ZeroTotalGuard
    /\ Len(last.linhas) = 2
    /\ AllCellsZero(last.linhas)
    /\ quadro_importado # EmptyTable

SumOfRows(linhas, turma, d) ==
    SumSeq([i \in 1..Len(linhas) |-> IF linhas[i].turma = turma THEN linhas[i].linha[d] ELSE 0])

\* C7: after an import, the value stored for a weekday of a class is the sum
\* of that weekday's parsed values over all the data rows that resolved to
\* the class.
C7_ImportSumsRowsOfAClass ==
    ImportStored(last) =>
        \A i \in 1..Len(last.linhas) : \A d \in 1..5 :
            /\ <<last.linhas[i].turma, last.segunda + (d - 1)>> \in DOMAIN quadro_importado
            /\ quadro_importado[<<last.linhas[i].turma, last.segunda + (d - 1)>>]
                  = SumOfRows(last.linhas, last.linhas[i].turma, d)

\* Two rows of TAI I with seg 2 and seg 3 have stored seg 5.
C7_Witness ==
    /\ ImportStored(last)
    /\ last.outcome = Success
    /\ Len(last.linhas) = 2
    /\ last.linhas[1].turma = "TAI I" /\ last.linhas[2].turma = "TAI I"
    /\ last.linhas[1].linha[1] = 2 /\ last.linhas[2].linha[1] = 3
    /\ quadro_importado[<<"TAI I", last.segunda>>] = 5

\* ---- the restore
\* The first column whose normalised header is name, 0 when there is none.
ColumnOf(archive, name) ==
    LET header == archive.quadro[1]
        hits == {j \in 1..Len(header) : normalize_header(as_clean_text(header[j])) = name}
    IN  IF hits = {} THEN 0 ELSE CHOOSE j \in hits : \A h \in hits : j <= h

HasSheet(archive) ==
    /\ archive.readable
    /\ archive.has_quadro
    /\ archive.quadro # <<>>
    /\ \A c \in 1..3 : ColumnOf(archive, required_backup[c]) > 0

\* The class and date of row i of the sheet, when the class is canonical and
\* the date is one of segunda..segunda+4.
RowMatches(archive, i, segunda) ==
    LET row == archive.quadro[i]
        ct == ColumnOf(archive, Text_turma)
        cd == ColumnOf(archive, Text_data_almoco)
    IN  /\ ct <= Len(row) /\ cd <= Len(row)
        /\ map_turma_value(as_clean_text(row[ct])) # None
        /\ RowDate(row[cd]).err = ""
        /\ segunda <= RowDate(row[cd]).v
        /\ RowDate(row[cd]).v <= segunda + 4

RowKey(archive, i) ==
    <<map_turma_value(as_clean_text(archive.quadro[i][ColumnOf(archive, Text_turma)])),
      RowDate(archive.quadro[i][ColumnOf(archive, Text_data_almoco)]).v>>

MatchingRows(archive, segunda) ==
    IF HasSheet(archive)
    THEN {i \in 2..Len(archive.quadro) : RowMatches(archive, i, segunda)}
    ELSE {}

RestoreRan(l) == l.op = "restaurar_backup" /\ l.autorizado

Newer(dir, f, g) == dir[f].mtime > dir[g].mtime

\* C5: a restore examines the archives newest first and takes its rows from
\* one archive only, the newest one that has a row of a canonical class dated
\* in the week; no older archive contributes a row, even if it has such rows.
C5_RestoreTakesNewestMatchingArchive ==
    [][ (clock' = clock + 1 /\ RestoreRan(last') /\ last'.found) =>
          LET sel == last'.selected_backup
              seg == last'.segunda
          IN  /\ sel \in DOMAIN backups
              /\ MatchingRows(backups[sel], seg) # {}
              /\ \A f \in DOMAIN backups :
                    Newer(backups, f, sel) => MatchingRows(backups[f], seg) = {}
              /\ \A n \in 1..Len(last'.examined) : \A m \in 1..(n - 1) :
                    Newer(backups, last'.examined[m], last'.examined[n])
              /\ Range(last'.examined)
                    = {f \in DOMAIN backups : f = sel \/ Newer(backups, f, sel)}
              /\ \A i \in MatchingRows(backups[sel], seg) :
                    RowKey(backups[sel], i) \in DOMAIN quadro_importado'
              /\ \A k \in DOMAIN quadro_importado' :
                    (k \notin DOMAIN quadro_importado \/ quadro_importado'[k] # quadro_importado[k])
                       => \E i \in MatchingRows(backups[sel], seg) : RowKey(backups[sel], i) = k
      ]_vars

\* The newest archive has no row of the week, the next has, and an older one
\* has a row of the week for a class and date that the store does not hold.
C5_Witness ==
    /\ RestoreRan(last) /\ last.outcome = Success
    /\ Len(last.examined) >= 2
    /\ last.selected_backup \in DOMAIN backups
    /\ \E f \in DOMAIN backups :
          /\ Newer(backups, last.selected_backup, f)
          /\ \E i \in MatchingRows(backups[f], last.segunda) :
                RowKey(backups[f], i) \notin DOMAIN quadro_importado

\* C8: after a restore, the value stored for a class and date that the
\* chosen archive holds in several matching rows is the value of the last of
\* those rows in the archive's order, not their sum.
C8_RestoreLastRowWins ==
    (RestoreRan(last) /\ last.found) =>
        \A i \in 1..Len(last.linhas_restauracao) :
            LET row == last.linhas_restauracao[i]
            IN  (\A j \in (i + 1)..Len(last.linhas_restauracao) :
                     <<last.linhas_restauracao[j][1], last.linhas_restauracao[j][2]>> # <<row[1], row[2]>>)
                => ( /\ <<row[1], row[2]>> \in DOMAIN quadro_importado
                     /\ quadro_importado[<<row[1], row[2]>>] = row[3] )

\* The chosen archive had two rows for one class and date, 3 and then 5.
C8_Witness ==
    /\ RestoreRan(last) /\ last.outcome = Success
    /\ \E i, j \in 1..Len(last.linhas_restauracao) :
          /\ i < j
          /\ last.linhas_restauracao[i][1] = last.linhas_restauracao[j][1]
          /\ last.linhas_restauracao[i][2] = last.linhas_restauracao[j][2]
          /\ last.linhas_restauracao[i][3] = 3
          /\ last.linhas_restauracao[j][3] = 5
          /\ quadro_importado[<<last.linhas_restauracao[j][1], last.linhas_restauracao[j][2]>>] = 5

\* C9: a restore with no archive at all, or with no archive holding a row
\* for the Monday..Friday of the week, fails with NoBackupFound, leaves the
\* imported headcounts unchanged and writes no archive.
C9_NoArchiveNoRestore ==
    [][ ( /\ clock' = clock + 1
          /\ RestoreRan(last')
          /\ \A f \in DOMAIN backups : MatchingRows(backups[f], last'.segunda) = {} )
        => ( /\ last'.outcome = NoBackupFound
             /\ quadro_importado' = quadro_importado
             /\ backups' = backups )
      ]_vars

\* The directory holds an archive with rows of another week only, headcounts
\* are stored, and the restore found nothing.
C9_Witness ==
    /\ RestoreRan(last)
    /\ last.outcome = NoBackupFound
    /\ quadro_importado # EmptyTable
    /\ \E f \in DOMAIN backups : \E w \in 0..MaxWeek : MatchingRows(backups[f], 7 * w) # {}
    /\ \A f \in DOMAIN backups : MatchingRows(backups[f], last.segunda) = {}

\* C11: a successful submit changes only the submitter's roster row and the
\* submitter's five rows of the targeted week; the student's rows of other
\* weeks, every row of other students and the imported headcounts stay.
C11_SubmitChangesOnlyItsWeek ==
    [][ (clock' = clock + 1 /\ SubmitAccepted(last')) =>
          LET m == last'.matricula
              week == {<<m, last'.segunda + i>> : i \in 0..4}
          IN  /\ DOMAIN respostas' = (DOMAIN respostas) \cup week
              /\ \A k \in (DOMAIN respostas) \ week : respostas'[k] = respostas[k]
              /\ DOMAIN alunos' = (DOMAIN alunos) \cup {m}
              /\ \A a \in (DOMAIN alunos) \ {m} : alunos'[a] = alunos[a]
              /\ quadro_importado' = quadro_importado
      ]_vars

\* After a submit of seg alone, the student still has a SIM on a Tuesday of
\* another week.
C11_Witness ==
    /\ SubmitAccepted(last)
    /\ last.dias = {"seg"}
    /\ \E k \in DOMAIN respostas :
          /\ k[1] = last.matricula
          /\ week_start(k[2]) # last.segunda
          /\ k[2] % 7 = 1
          /\ respostas[k].intencao = "SIM"

\* ------------------------------------------------- concurrent submissions
Done(t) == threads[t].pc = "done"

Committed(t) == threads[t].commit_no > 0

\* Both requests were in progress at the same time.
Overlap(t, u) ==
    /\ threads[u].begin_no < threads[t].commit_no
    /\ threads[t].begin_no < threads[u].commit_no

SameStudentAndWeek(t, u) ==
    /\ threads[t].matricula = threads[u].matricula
    /\ threads[t].segunda = threads[u].segunda

Selection(t) == {i \in 1..5 : DiaText(DIAS_SEMANA[i]) \in Range(threads[t].dias_marcados)}

\* C12: once the concurrent submissions have completed, the five rows of a
\* student's week all carry the day selection of one submission: the one
\* that committed last among the submissions for that student and week.
C12_NoMixtureAfterConcurrentSubmits ==
    (\A t \in Threads : Done(t)) =>
        \A t \in Threads :
            ( /\ Committed(t)
              /\ \A u \in Threads \ {t} :
                     Committed(u) /\ SameStudentAndWeek(t, u)
                        => threads[u].commit_no < threads[t].commit_no )
            => \A i \in 1..5 :
                  /\ <<threads[t].matricula, threads[t].segunda + (i - 1)>> \in DOMAIN respostas
                  /\ respostas[<<threads[t].matricula, threads[t].segunda + (i - 1)>>].intencao
                        = IF i \in Selection(t) THEN "SIM" ELSE "NAO"

\* Two overlapping submissions of one student for one week with different
\* selections have both completed.
C12_Witness ==
    \E t, u \in Threads :
        /\ Done(t) /\ Done(u) /\ Committed(t) /\ Committed(u)
        /\ t # u /\ SameStudentAndWeek(t, u) /\ Overlap(t, u)
        /\ Selection(t) # Selection(u)

\* The request of thread t run alone on the tables of view.
Alone(view, t) ==
    [alunos |-> Upsert(view.alunos, threads[t].matricula,
                       [nome |-> threads[t].nome, turma |-> threads[t].turma]),
     respostas |-> UpsertRespostas(view.respostas, 1, threads[t].nome, threads[t].matricula,
                                   threads[t].turma, threads[t].segunda,
                                   threads[t].dias_marcados)]

RECURSIVE OneAfterTheOther(_, _, _)
OneAfterTheOther(view, order, i) ==
    IF i > Len(order) THEN view
    ELSE OneAfterTheOther(Alone(view, order[i]), order, i + 1)

Orders(S) == {o \in [1..Cardinality(S) -> S] : \A i, j \in DOMAIN o : i # j => o[i] # o[j]}

\* C13: once concurrent submissions of different students have completed,
\* alunos and respostas are what the submissions give when they run one
\* after the other on the empty tables, in whichever order.
C13_DifferentStudentsAsSequential ==
    \A S \in {{t \in Threads : Committed(t)}} :
        ( /\ \A t \in Threads : Done(t)
          /\ \A t, u \in S : t # u => threads[t].matricula # threads[u].matricula )
        => \A o \in Orders(S) :
              OneAfterTheOther(NoView, o, 1) = [alunos |-> alunos, respostas |-> respostas]

\* Two overlapping submissions of different students have both completed.
C13_Witness ==
    \E t, u \in Threads :
        /\ Done(t) /\ Done(u) /\ Committed(t) /\ Committed(u)
        /\ threads[t].matricula # threads[u].matricula /\ Overlap(t, u)
        /\ threads[t].outcome = Success /\ threads[u].outcome = Success

\* ------------------------------------------------------ totals of the grid
\* The cells of weekday i in the first n rows of the grid, added up.
RECURSIVE CellsOfDay(_, _, _)
CellsOfDay(rows, n, i) ==
    IF n = 0 THEN 0 ELSE GridCell(rows[n], i) + CellsOfDay(rows, n - 1, i)

WeekdayTotal(semana_sim, i) ==
    CASE i = 1 -> semana_sim.seg [] i = 2 -> semana_sim.ter [] i = 3 -> semana_sim.qua
      [] i = 4 -> semana_sim.qui [] i = 5 -> semana_sim.sex

\* C14: in the weekly grid, each row's total is the sum of its five weekday
\* cells, each weekday's grand total is the sum of that weekday's cells over
\* the ten class rows, and the overall grand total is the sum of all fifty cells.
C14_GridTotalsAreSums ==
    \A w \in 0..MaxWeek :
        \A grid \in {build_quadro_semana(respostas, quadro_importado, 7 * w, 7 * w + 4)} :
        \A rows \in {grid.quadro_rows} :
            /\ \A n \in 1..Len(rows) :
                  rows[n].total = rows[n].seg + rows[n].ter + rows[n].qua + rows[n].qui + rows[n].sex
            /\ \A i \in 1..5 : WeekdayTotal(grid.semana_sim, i) = CellsOfDay(rows, 10, i)
            /\ grid.total_semana_geral
                  = CellsOfDay(rows, 10, 1) + CellsOfDay(rows, 10, 2) + CellsOfDay(rows, 10, 3)
                    + CellsOfDay(rows, 10, 4) + CellsOfDay(rows, 10, 5)

\* A week whose grid has three classes with a meal, two of them on Friday,
\* one of them the last class of the list, and a row with two days.
C14_Witness ==
    \E w \in 0..MaxWeek :
        \A grid \in {build_quadro_semana(respostas, quadro_importado, 7 * w, 7 * w + 4)} :
            /\ Cardinality({n \in 1..10 : grid.quadro_rows[n].total > 0}) >= 3
            /\ Cardinality({n \in 1..10 : grid.quadro_rows[n].sex > 0}) >= 2
            /\ GridRow(grid.quadro_rows, "SERVIDORES").total > 0
            /\ \E n \in 1..10 : grid.quadro_rows[n].ter > 0 /\ grid.quadro_rows[n].qua > 0
            /\ grid.total_semana_geral >= 6

\* ---------------------------------------------------- the identity resolver
Resolved(l) == l.op = "map_turma_value"

\* The positions of a digit 1, 2 or 3 that no digit follows.
LevelDigits(n) ==
    {i \in 1..Len(n) : /\ n[i] \in {"1", "2", "3"}
                       /\ (i = Len(n) \/ n[i + 1] \notin {"0","1","2","3","4","5","6","7","8","9"})}

\* The programs whose keyword occurs in n.
Programs(n) ==
    {pr \in {"TIN", "TAI", "TST"} :
        \/ pr = "TIN" /\ Contains(n, <<"i","n","f","o","r","m","a","t","i","c","a">>)
        \/ pr = "TAI" /\ Contains(n, <<"a","u","t","o","m","a","c","a","o">>)
        \/ pr = "TST" /\ Contains(n, <<"s","e","g","u","r","a","n","c","a">>)
                      /\ Contains(n, <<"t","r","a","b","a","l","h","o">>)}

ClassOf(pr, digit) ==
    CASE pr = "TIN" -> (CASE digit = "1" -> "TIN I" [] digit = "2" -> "TIN II" [] digit = "3" -> "TIN III")
      [] pr = "TAI" -> (CASE digit = "1" -> "TAI I" [] digit = "2" -> "TAI II" [] digit = "3" -> "TAI III")
      [] pr = "TST" -> (CASE digit = "1" -> "TST I" [] digit = "2" -> "TST II" [] digit = "3" -> "TST III")

Example_Label == TecnicoEm \o Informatica \o <<" ", "ndash", " ", "2">>

Example_Short == <<"2", " ", "i","n","f","o","r","m","a","t","i","c","a">>

\* C15: the resolver gives every label one of the ten class codes or no
\* match, by the first rule that applies: the label is a class code, the
\* label is a full descriptive label, the label contains "servidor", the
\* label has a digit 1-3 that no digit follows and a program keyword (the
\* result is then a class of such a program and such a digit); a label with
\* no such digit or no program keyword resolves to no match.  The four
\* examples resolve to TIN II, TIN II, SERVIDORES and no match.
C15_ResolverRulesInOrder ==
    /\ Resolved(last) =>
          \A n \in {normalize_header(last.value)} :
          \A codes \in {{c \in TurmaSet : normalize_header(TurmaText(c)) = n}} :
          \A labels \in {{c \in TurmaSet : normalize_header(TURMAS_LABEL(c)) = n}} :
              /\ last.result \in TurmaSet \cup {None}
              /\ IF codes # {} THEN last.result \in codes
                 ELSE IF labels # {} THEN last.result \in labels
                 ELSE IF Contains(n, <<"s","e","r","v","i","d","o","r">>)
                 THEN last.result = "SERVIDORES"
                 ELSE IF LevelDigits(n) = {} \/ Programs(n) = {} THEN last.result = None
                 ELSE last.result \in {ClassOf(pr, n[i]) : pr \in Programs(n), i \in LevelDigits(n)}
    /\ map_turma_value(Example_Label) = "TIN II"
    /\ map_turma_value(Example_Short) = "TIN II"
    /\ map_turma_value(<<"S","E","R","V","I","D","O","R">>) = "SERVIDORES"
    /\ map_turma_value(<<"x","y","z">>) = None

\* The resolver skipped a digit that a digit follows and took the next one.
C15_Witness ==
    /\ Resolved(last)
    /\ last.value = <<"1","2">> \o <<" ">> \o <<"A","u","t","o","m","a","ccedil","atilde","o">>
    /\ last.result = "TAI II"

\* C16: week_start(d) is the Monday on or before d, at most six days
\* before it, and week_start(week_start(d)) = week_start(d).
C16_WeekStartIsMondayBefore ==
    last.op = "week_start" =>
        /\ last.result % 7 = 0
        /\ last.given_date - last.result \in 0..6
        /\ last.again = last.result

\* week_start ran on a Sunday before day 0.
C16_Witness ==
    /\ last.op = "week_start"
    /\ last.given_date = 0 - 1
    /\ last.result = 0 - 7

\* ----------------------------------------------------------- retention
\* C17: after a snapshot is written and no unlink fails, at most 30 archives
\* exist, none of the archives that are gone is newer than one that is left,
\* none is gone without need, and the archive just written is one of them.
C17_ThirtyNewestArchivesKept ==
    [][ ( /\ clock' = clock + 1
          /\ last'.outcome = Success
          /\ "unlink_failed" \in DOMAIN last'
          /\ last'.unlink_failed = {} )
        => \A written \in {BackupPath(today)} :
           \A all \in {(DOMAIN backups) \cup {written}} :
              /\ DOMAIN backups' \subseteq all
              /\ Cardinality(DOMAIN backups') <= 30
              /\ Cardinality(DOMAIN backups')
                    = (IF Cardinality(all) < 30 THEN Cardinality(all) ELSE 30)
              /\ written \in DOMAIN backups'
              /\ backups'[written].mtime = clock + 1
              /\ \A f \in DOMAIN backups' : \A g \in all \ DOMAIN backups' :
                    g # written /\ backups[g].mtime <= backups'[f].mtime
      ]_vars

\* A snapshot was written into a full directory: two or more old archives
\* were unlinked and thirty are left.
C17_Witness ==
    /\ last.outcome = Success
    /\ "unlink_failed" \in DOMAIN last
    /\ last.unlink_failed = {}
    /\ Cardinality(last.unlink_tried) >= 2
    /\ Cardinality(DOMAIN backups) = 30

\* ------------------------------------------------------- the admin token
Refused ==
    /\ last'.outcome = Forbidden
    /\ UNCHANGED <<alunos, respostas, quadro_importado, backups>>

\* C18: a request to the dashboard, the weekly sheet, an export, the roster
\* import, the headcount import or the restore whose token is not exactly
\* the secret is answered Forbidden, and the three tables and the directory
\* of archives are as before.
C18_WrongTokenRefused ==
    [][ \A tk \in WrongTokens :
          /\ \A route \in AdminGetRoutes : admin_get(route, tk) => Refused
          /\ \A f \in AlunosFiles : importar_alunos(tk, f) => Refused
          /\ \A req \in RefusedRequests :
                /\ req.token = tk
                     /\ importar_quadro_semanal(tk, req.file, req.data, ReadQuadroFiles[File_Tin])
                   => Refused
                /\ req.token = tk /\ restaurar_backup_quadro(tk, req.data) => Refused
      ]_vars

\* The headcount import was refused while the table held headcounts.
C18_Witness ==
    /\ last.op = "importar_quadro"
    /\ last.outcome = Forbidden
    /\ ~last.autorizado
    /\ quadro_importado # EmptyTable

\* ------------------------------------------------------- rows of the grid
DisplayOrder ==
    <<"TAI I", "TAI II", "TAI III", "TIN I", "TIN II", "TIN III",
      "TST I", "TST II", "TST III", "SERVIDORES">>

\* Class c has no response row and no imported headcount from Monday to
\* Friday of the week of segunda.
NothingInWeek(c, segunda) ==
    /\ \A k \in DOMAIN respostas :
          ~(respostas[k].turma = c /\ k[2] \in segunda..(segunda + 4))
    /\ \A k \in DOMAIN quadro_importado :
          ~(k[1] = c /\ k[2] \in segunda..(segunda + 4))

\* C19: the weekly grid has ten rows, one for each class, in the order
\* TAI I, TAI II, TAI III, TIN I, TIN II, TIN III, TST I, TST II, TST III,
\* SERVIDORES; the row of a class with no response and no imported
\* headcount in the week has its five cells and its total equal to 0.
C19_GridRowsInDisplayOrder ==
    \A w \in 0..MaxWeek :
        \A rows \in {build_quadro_semana(respostas, quadro_importado, 7 * w, 7 * w + 4).quadro_rows} :
            /\ Len(rows) = 10
            /\ Cardinality({rows[n].turma_nome : n \in 1..Len(rows)}) = 10
            /\ \A n \in 1..10 :
                  /\ rows[n].ordem = n
                  /\ rows[n].turma_nome = TURMAS_LABEL(DisplayOrder[n])
                  /\ NothingInWeek(DisplayOrder[n], 7 * w) =>
                        /\ \A i \in 1..5 : GridCell(rows[n], i) = 0
                        /\ rows[n].total = 0

\* In the grid of week 0 the fourth row (TIN I) has meals from a response,
\* the fifth (TIN II) from an import, and TAI I has nothing.
C19_Witness ==
    \A rows \in {build_quadro_semana(respostas, quadro_importado, 0, 4).quadro_rows} :
        /\ rows[4].total > 0 /\ \E k \in DOMAIN respostas : respostas[k].turma = "TIN I"
        /\ rows[5].total > 0
        /\ NothingInWeek("TAI I", 0)
        /\ rows[1].total = 0

\* ------------------------------------------------- the header of the import
\* The row's normalized cells include turma, seg, ter, qua, qui and sex.
Qualifies(row) ==
    \A tok \in {<<"t","u","r","m","a">>, <<"s","e","g">>, <<"t","e","r">>, <<"q","u","a">>,
                 <<"q","u","i">>, <<"s","e","x">>} :
        \E i \in 1..Len(row) : normalize_header(as_clean_text(row[i])) = tok

\* The first qualifying row among the first 15 rows, 0 when there is none.
FirstQualifying(rows) ==
    IF \E n \in 1..15 : n <= Len(rows) /\ Qualifies(rows[n])
    THEN CHOOSE n \in 1..15 :
            /\ n <= Len(rows) /\ Qualifies(rows[n])
            /\ \A m \in 1..(n - 1) : ~Qualifies(rows[m])
    ELSE 0

\* The file is an .xlsx workbook that was read and has rows.
Scanned(file) ==
    /\ file.filename # <<>>
    /\ EndsWith(Lower(file.filename), <<".","x","l","s","x">>)
    /\ file.readable
    /\ file.rows # <<>>

FirstQualifyingOf == [f \in {g \in ImportFiles : Scanned(g)} |-> FirstQualifying(f.rows)]

\* C20: the headcount import takes as header the first row, among the first
\* 15 rows of the sheet, whose normalized cells include the six tokens; when
\* none of the 15 qualifies it ends in HeaderNotFound and quadro_importado is
\* unchanged, whatever the rows from the 16th on hold.
C20_HeaderAmongFirstFifteen ==
    [][ (clock' = clock + 1 /\ last'.op = "importar_quadro") =>
          \A req \in ImportRequests :
             ( /\ req.token = "ifc-sbs"
               /\ Scanned(req.file)
               /\ importar_quadro_semanal(req.token, req.file, req.data, ReadQuadroFiles[req.file]) )
             => IF FirstQualifyingOf[req.file] = 0
                THEN /\ last'.outcome = HeaderNotFound
                     /\ quadro_importado' = quadro_importado
                ELSE /\ last'.outcome # HeaderNotFound
                     /\ last'.header_row_idx = FirstQualifyingOf[req.file]
      ]_vars

\* An import whose sheet has its header in row 15 stored the row below it.
C20_Witness ==
    /\ last.op = "importar_quadro"
    /\ last.outcome = Success
    /\ last.header_row_idx = 15
    /\ FirstQualifying(File_HeaderAt(15).rows) = 15
    /\ FirstQualifying(File_HeaderAt(16).rows) = 0
    /\ <<"TST I", last.segunda>> \in DOMAIN quadro_importado
    /\ quadro_importado[<<"TST I", last.segunda>>] = 4

\* ------------------------------------- the archive after concurrent requests
NoRequestInProgress == \A t \in Threads : threads[t].pc \in {"idle", "done"}

\* Every request that committed went on to save its workbook.
EveryCommitSaved == \A t \in Threads : Committed(t) => threads[t].outcome = Success

\* The files of the directory with the greatest st_mtime.
MostRecentlyWritten(dir) == {f \in DOMAIN dir : \A g \in DOMAIN dir : dir[g].mtime <= dir[f].mtime}

\* C21: whenever no request is in progress, and each request that committed
\* has written its snapshot, the most recently written archive holds exactly
\* the rows of alunos, respostas and quadro_importado as they are now,
\* whichever way the concurrent requests interleaved.
C21_LatestArchiveHoldsTheStores ==
    ( /\ NoRequestInProgress
      /\ EveryCommitSaved
      /\ \E t \in Threads : Committed(t) )
    => \A f \in MostRecentlyWritten(backups) :
          /\ backups[f].respostas = respostas
          /\ backups[f].alunos = alunos
          /\ backups[f].quadro = QuadroSheet(quadro_importado)

\* ------------------------------------------- what a headcount import changes
\* The classes the data rows of the file resolved to.
ClassesOf(linhas) == {linhas[i].turma : i \in 1..Len(linhas)}

\* The import changed the table as said: the five weekdays of each class of
\* the file hold the file's sums, every other row is as it was, and no
\* other row appeared.
ImportReplaces ==
    ( /\ clock' = clock + 1
      /\ ImportRan(last')
      /\ last'.outcome = Success )
    => \A classes \in {ClassesOf(last'.linhas)}, segunda \in {last'.segunda} :
          /\ classes # {}
          /\ \A c \in classes, d \in 1..5 :
                /\ <<c, segunda + (d - 1)>> \in DOMAIN quadro_importado'
                /\ quadro_importado'[<<c, segunda + (d - 1)>>] = SumOfRows(last'.linhas, c, d)
          /\ \A k \in DOMAIN quadro_importado :
                (k[1] \notin classes \/ k[2] \notin segunda..(segunda + 4))
                => k \in DOMAIN quadro_importado' /\ quadro_importado'[k] = quadro_importado[k]
          /\ \A k \in DOMAIN quadro_importado' :
                k \in DOMAIN quadro_importado \/ (k[1] \in classes /\ k[2] \in segunda..(segunda + 4))

\* The request repeats the successful import that was the last request: the
\* same rows of the same file for the same week.
SameImportAgain(req) ==
    /\ ImportRan(last)
    /\ last.outcome = Success
    /\ req.token = ADMIN_TOKEN
    /\ ReadQuadroFiles[req.file].erro = ""
    /\ ReadQuadroFiles[req.file].header_row_idx = last.header_row_idx
    /\ ReadQuadroFiles[req.file].parsed.linhas = last.linhas
    /\ week_start(DataBase(req.data)) = last.segunda

ImportTwiceAsOnce ==
    \A req \in ImportRequests :
        ( /\ SameImportAgain(req)
          /\ importar_quadro_semanal(req.token, req.file, req.data, ReadQuadroFiles[req.file]) )
        => quadro_importado' = quadro_importado

\* C22: a successful headcount import for a week replaces, for every class
\* that resolved from a row of the file, the five weekday values of that week
\* by the file's sums (zeros included, nothing added to what was stored);
\* the rows of other classes and other weeks are unchanged; and importing
\* the same file again leaves the table as the first import left it.
C22_ImportReplacesNotAdds == [][ImportReplaces /\ ImportTwiceAsOnce]_vars

\* TIN II had seg 1 and sex 2 from a first file (which also gave SERVIDORES
\* qui 3); a second file with TIN II seg 1, ter 2 and sex 0 was imported for
\* the same week: seg is 1, sex is 0 and the row of SERVIDORES is untouched.
C22_Witness ==
    /\ ImportRan(last)
    /\ last.outcome = Success
    /\ ClassesOf(last.linhas) = {"TIN II"}
    /\ <<"SERVIDORES", last.segunda + 3>> \in DOMAIN quadro_importado
    /\ quadro_importado[<<"SERVIDORES", last.segunda + 3>>] = 3
    /\ quadro_importado[<<"TIN II", last.segunda>>] = 1
    /\ quadro_importado[<<"TIN II", last.segunda + 1>>] = 2
    /\ quadro_importado[<<"TIN II", last.segunda + 4>>] = 0

\* ------------------------------------------------ the rows of respostas
\* The Monday of the week of a date (day 0 is a Monday).
MondayOf(data) == data - (data % 7)

\* The students that have a row.
Students(resp) == {k[1] : k \in DOMAIN resp}

\* C23: after any sequence of submissions, accepted or rejected, every row
\* of respostas is dated Monday..Friday, carries a canonical class code and
\* the intention SIM or NAO, and a student who has a row in a week has
\* exactly the five rows Monday..Friday of that week.  (One row per student
\* and date is the key of the table.)
C23_ResponsesAreWholeWeeks ==
    /\ \A k \in DOMAIN respostas :
          /\ k[2] % 7 \in 0..4
          /\ respostas[k].turma \in TurmaSet
          /\ respostas[k].intencao \in {"SIM", "NAO"}
          /\ WeekRows(respostas, k[1], MondayOf(k[2]))
                = {<<k[1], MondayOf(k[2]) + i>> : i \in 0..4}
    /\ \A m \in Students(respostas) :
          Cardinality({k \in DOMAIN respostas : k[1] = m})
             = 5 * Cardinality({MondayOf(k[2]) : k \in {j \in DOMAIN respostas : j[1] = m}})

\* One student has the rows of two weeks, with days selected in both.
C23_Witness ==
    /\ Cardinality(Students(respostas)) = 1
    /\ Cardinality(DOMAIN respostas) = 10
    /\ \E k, j \in DOMAIN respostas :
          /\ MondayOf(k[2]) # MondayOf(j[2])
          /\ respostas[k].intencao = "SIM" /\ respostas[j].intencao = "SIM"
          /\ \E n \in DOMAIN respostas : MondayOf(n[2]) = MondayOf(k[2]) /\ respostas[n].intencao = "NAO"

\* ------------------------------------------- the rows of quadro_importado
\* C24: after any sequence of headcount imports and restores, every row of
\* quadro_importado carries a canonical class code, a date that is a
\* Monday..Friday and a count of 0 or more.  (One row per class and date is
\* the key of the table.)
C24_HeadcountRowsWellFormed ==
    \A k \in DOMAIN quadro_importado :
        /\ k[1] \in TurmaSet
        /\ k[2] % 7 \in 0..4
        /\ quadro_importado[k] \in Nat

\* An import stored TIN I in week 1; a restore of week 0 then took its rows
\* from an archive copied in by hand that held a negative count, a Sunday
\* and the text "-1,5": the two rows it kept are stored as 0.
C24_Witness ==
    /\ RestoreRan(last) /\ last.outcome = Success
    /\ last.segunda = 0
    /\ last.linhas_restauracao = << <<"TST I", 3, 0>>, <<"SERVIDORES", 4, 0>> >>
    /\ DOMAIN quadro_importado
          = {<<"TST I", 3>>, <<"SERVIDORES", 4>>} \cup {<<"TIN I", 7 + d>> : d \in 0..4}
    /\ quadro_importado[<<"TST I", 3>>] = 0
    /\ quadro_importado[<<"TIN I", 8>>] = 5

\* ------------------------------------------------- what a restore changes
\* The class and date of some matching row of the archive.
InArchive(archive, segunda, k) ==
    \E i \in MatchingRows(archive, segunda) : RowKey(archive, i) = k

\* C25: a successful restore of a week only upserts: every row of
\* quadro_importado is still there; a row dated outside the Monday..Friday
\* of the week, and a row of the week whose class and date the chosen
\* archive does not hold, keeps its count; respostas and alunos are as they
\* were.
C25_RestoreOnlyUpserts ==
    [][ ( /\ clock' = clock + 1
          /\ RestoreRan(last')
          /\ last'.outcome = Success )
        => \A sel \in {last'.selected_backup}, segunda \in {last'.segunda} :
              /\ sel \in DOMAIN backups
              /\ DOMAIN quadro_importado \subseteq DOMAIN quadro_importado'
              /\ \A k \in DOMAIN quadro_importado :
                    ( \/ k[2] \notin segunda..(segunda + 4)
                      \/ ~InArchive(backups[sel], segunda, k) )
                    => quadro_importado'[k] = quadro_importado[k]
              /\ respostas' = respostas
              /\ alunos' = alunos
      ]_vars

\* TIN I was stored for week 0 with ter 5; a restore of week 0 took TST I and
\* SERVIDORES from an archive that has no row of TIN I: the five rows of
\* TIN I are still stored, with ter 5.
C25_Witness ==
    /\ RestoreRan(last) /\ last.outcome = Success
    /\ last.segunda = 0
    /\ last.linhas_restauracao = << <<"TST I", 3, 0>>, <<"SERVIDORES", 4, 0>> >>
    /\ DOMAIN quadro_importado
          = {<<"TST I", 3>>, <<"SERVIDORES", 4>>} \cup {<<"TIN I", d>> : d \in 0..4}
    /\ quadro_importado[<<"TIN I", 1>>] = 5
    /\ quadro_importado[<<"TIN I", 3>>] = 0
====
